---- MODULE Spec2Model ----
(***************************************************************************)
(* A model of the cgen runtime support layer (src/cgen/runtime):           *)
(*   - the index / slice normalizer  (cgen_stc_bridge.c, cgen_python_ops.c)*)
(*   - the scope allocator           (cgen_memory_ops.c)                   *)
(*   - the process-wide error context (cgen_error_handling.c)              *)
(*   - reference counting and the memory pool (cgen_memory_ops.c)          *)
(*   - the container registry and the container bridge (cgen_stc_bridge.c) *)
(*                                                                         *)
(* C integers keep a width.  `int` is modelled as an IntBits-bit two's     *)
(* complement integer and `size_t` as a SizeBits-bit unsigned integer,     *)
(* IntBits < SizeBits as on an LP64 build (32 and 64 there).  Signed       *)
(* overflow and abs(INT_MIN) are undefined behaviour: the operators that   *)
(* model them return the SET of values the expression may take.            *)
(***************************************************************************)
EXTENDS Integers, Sequences, FiniteSets, TLC

VARIABLES
    err,            \* cgen_last_error.code
    err_msg,        \* cgen_last_error.message
    unit,           \* the component the caller exercises in this run
    pc,             \* position of the caller: which call has been made
    args_ok,        \* FALSE: the call is made with a NULL argument
    index,          \* int index argument of cgen_normalize_index / vec_at_safe
    vec_size,       \* what size_func(vec_ptr) returns
    ret,            \* int / cgen_error_t return value of the last call
    ret_ptr,        \* pointer return value of the last call
    at_calls,       \* the positions at_func has been called with, in order
    slice,          \* cgen_python_slice_t argument
    seq_len,        \* size_t seq_len argument
    result,         \* cgen_normalized_slice_t *result (caller's struct)
    cslice,         \* cgen_slice_t *slice of cgen_normalize_slice (in place)
    container_size, \* size_t container_size argument
    scope,          \* the scope allocator: state of the record and its list
    heap,           \* live heap blocks (malloc'ed and not yet freed)
    free_calls,     \* every pointer handed to free(), in call order
    registered,     \* registrations made so far, oldest first
    obj,            \* the cgen_refcounted_t envelope
    obj_log,        \* retains and releases made; destructor / free calls in order
    registry,       \* the cgen_stc_registry_t record and its list
    cleanup_calls,  \* one sequence per cleanup pass: the entries whose
                    \* cleanup_func it called, in call order
    pool,           \* the cgen_memory_pool_t record
    pool_log,       \* what the pool has handed out, this pass and the last
    call_args,      \* the arguments of the last call (pool, bridge, error context)
    cap_calls,      \* capability functions the bridge has called, in order
    buffer,         \* the cgen_buffer_t record and the bytes of its data
    buf_log,        \* what has been appended to the buffer since it was empty
    tracker,        \* memory_tracking_enabled and memory_stats
    held            \* the caller's pointer variables and the blocks they name

vars == << err, err_msg, unit, pc, args_ok, index, vec_size, ret, ret_ptr,
           at_calls, slice, seq_len, result, cslice, container_size,
           scope, heap, free_calls, registered, obj, obj_log, registry,
           cleanup_calls, pool, pool_log, call_args, cap_calls, buffer,
           buf_log, tracker, held >>

indexVars == << index, vec_size, at_calls >>
sliceVars == << slice, seq_len, result, cslice, container_size >>
scopeVars == << scope, heap, free_calls, registered >>
refVars == << obj, obj_log >>
registryVars == << registry, cleanup_calls >>
poolVars == << pool, pool_log >>
bridgeVars == << call_args, cap_calls >>
memVars == << buffer, buf_log, tracker, held >>
\* What the index, slice and scope components never touch.
restVars == << unit, refVars, registryVars, poolVars, bridgeVars, memVars >>

----------------------------------------------------------------------------
(* Bounds of the model *)

IntBits == 4
SizeBits == 5
MaxLen == 5
MaxStep == 2
MaxBlocks == 2
MaxOps == 3
MaxFailedRegs == 1
PoolBits == 16
MaxAllocs == 2
MaxResets == 1
\* The largest errno value tried.
MaxErrno == 23
\* Width of size_t in the buffer component, and the calls made on a buffer.
BufBits == 10
MaxAppends == 3

----------------------------------------------------------------------------
(* cgen_error_t, cgen_error_handling.h *)

CGEN_OK == 0
CGEN_ERROR_GENERIC == 1
CGEN_ERROR_MEMORY == 2
CGEN_ERROR_INDEX == 3
CGEN_ERROR_KEY == 4
CGEN_ERROR_VALUE == 5
CGEN_ERROR_TYPE == 6
CGEN_ERROR_IO == 7
CGEN_ERROR_FILE_NOT_FOUND == 8
CGEN_ERROR_PERMISSION == 9
CGEN_ERROR_RUNTIME == 10

\* The error codes the context may hold before a call under test.
PriorErrors == {CGEN_OK, CGEN_ERROR_GENERIC}

\* CGEN_SET_ERROR / CGEN_SET_ERROR_FMT: the code is overwritten unconditionally.
cgen_set_error(code) == code

\* sizeof(cgen_last_error.message)
MessageSize == 512

\* (a variant that keeps the whole message, however long)
StoredMessage_uncut(given, message) == IF ~given THEN "" ELSE message

\* The message cgen_set_error / cgen_set_error_fmt leaves in the buffer:
\* empty for a NULL message (given = FALSE), else the text cut to what the
\* buffer holds before its terminating NUL (strncpy / vsnprintf).
StoredMessage(given, message) ==
    IF ~given THEN ""
    ELSE IF Len(message) > MessageSize - 1
         THEN SubSeq(message, 1, MessageSize - 1)
         ELSE message

\* The message that goes with an earlier error code.
PriorMessage(code) == IF code = CGEN_OK THEN "" ELSE "earlier failure"

\* What a call does to the error context: an outcome o with o.error = CGEN_OK
\* made no CGEN_SET_ERROR call; any other went through one with o.msg.
\* (a variant that also resets the context when the call succeeds)
ReportError_clearing(o) ==
    IF o.error # CGEN_OK
    THEN /\ err' = cgen_set_error(o.error)
         /\ err_msg' = StoredMessage(TRUE, o.msg)
    ELSE err' = CGEN_OK /\ err_msg' = ""

ReportError(o) ==
    IF o.error # CGEN_OK
    THEN /\ err' = cgen_set_error(o.error)
         /\ err_msg' = StoredMessage(TRUE, o.msg)
    ELSE UNCHANGED << err, err_msg >>

----------------------------------------------------------------------------
(* C integer arithmetic *)

IntMod == 2 ^ IntBits
IntMin == -(2 ^ (IntBits - 1))
IntMax == 2 ^ (IntBits - 1) - 1
IntRange == IntMin .. IntMax
SizeMod == 2 ^ SizeBits
SizeMax == SizeMod - 1
SizeRange == 0 .. SizeMax

\* (size_t)x for an int x: reduction modulo 2^SizeBits.
ToSize(x) == x % SizeMod

\* (int)n for a size_t n: the low IntBits bits, read as two's complement.
ToInt(n) == LET m == n % IntMod IN IF m > IntMax THEN m - IntMod ELSE m

\* a + b on ints: the sum, or any int when the sum overflows (undefined).
IntSums(a, b) == IF a + b \in IntRange THEN {a + b} ELSE IntRange

\* abs(x) on ints: undefined for INT_MIN.
IntAbs(x) == IF x = IntMin THEN IntRange ELSE {IF x < 0 THEN -x ELSE x}

\* size_t arithmetic wraps.
SizeAdd(a, b) == (a + b) % SizeMod
SizeSub(a, b) == (a - b) % SizeMod

\* The sequence lengths the calls are tried with: the small ones, the first
\* lengths an int cannot hold, and the largest size_t.
SeqLens == (0 .. MaxLen) \cup {IntMax + 1, SizeMax}

NULL == << >>

----------------------------------------------------------------------------
(* Index normalizer and safe element access, cgen_stc_bridge.c *)

\* cgen_normalize_index(index, size): the set of outcomes [ret, error];
\* error is CGEN_OK when the call does not touch the error context.
\* (a variant whose upper bound check is off by one: index = size is let through)
cgen_normalize_index_offbyone(idx, size) ==
    LET added == IF idx < 0 THEN IntSums(idx, ToInt(size)) ELSE {idx}
    IN  { IF i < 0 \/ i > ToInt(size)
          THEN [ret |-> -1, error |-> CGEN_ERROR_INDEX,
                msg |-> "Index " \o ToString(i) \o " out of range [0, "
                          \o ToString(size) \o ")"]
          ELSE [ret |-> i, error |-> CGEN_OK] : i \in added }

cgen_normalize_index(idx, size) ==
    LET added == IF idx < 0 THEN IntSums(idx, ToInt(size)) ELSE {idx}
    IN  { IF i < 0 \/ i >= ToInt(size)
          THEN [ret |-> -1, error |-> CGEN_ERROR_INDEX,
                msg |-> "Index " \o ToString(i) \o " out of range [0, "
                          \o ToString(size) \o ")"]
          ELSE [ret |-> i, error |-> CGEN_OK] : i \in added }

\* The capability at_func(container, k): the element stored at position k.
at_func(k) == << "elem", k >>

InitCommon ==
    /\ err \in PriorErrors
    /\ err_msg = PriorMessage(err)
    /\ pc = "ready"
    /\ args_ok \in BOOLEAN
    /\ ret = 0
    /\ ret_ptr = NULL

IdleIndex == index = 0 /\ vec_size = 0 /\ at_calls = << >>
IdleSlice ==
    /\ slice = [start |-> 0, stop |-> 0, step |-> 1,
                has_start |-> FALSE, has_stop |-> FALSE, has_step |-> FALSE]
    /\ seq_len = 0
    /\ result = [start |-> 0, stop |-> 0, step |-> 0, length |-> 0]
    /\ cslice = [start |-> 0, stop |-> 0, step |-> 0]
    /\ container_size = 0
IdleScope ==
    /\ scope = [state |-> "none", entries |-> << >>, count |-> 0]
    /\ heap = {}
    /\ free_calls = << >>
    /\ registered = << >>

IdleRef ==
    /\ obj = [state |-> "none", refcount |-> 0, destructor |-> FALSE]
    /\ obj_log = [retains |-> 0, releases |-> 0, events |-> << >>]
IdleRegistry ==
    /\ registry = [state |-> "none", entries |-> << >>, count |-> 0]
    /\ cleanup_calls = << >>
IdlePool ==
    /\ pool = [state |-> "none", capacity |-> 0, used |-> 0, size |-> 0]
    /\ pool_log = [initial |-> 0, grown |-> FALSE, resets |-> 0,
                   handed |-> << >>, last_pass |-> << >>]
IdleBridge ==
    /\ call_args = [entry |-> "none"]
    /\ cap_calls = << >>
\* The run exercises component u; the later components are not in use.
IdleMem ==
    /\ buffer = [state |-> "none", bytes |-> << >>, size |-> 0, capacity |-> 0]
    /\ buf_log = [content |-> << >>, lens |-> << >>, calls |-> 0]
    /\ tracker = [enabled |-> FALSE, total_allocated |-> 0, total_freed |-> 0,
                  current_allocated |-> 0, peak_allocated |-> 0,
                  allocation_count |-> 0, free_count |-> 0]
    /\ held = [vars |-> [v \in {"p", "q"} |-> << >>], tracked |-> {},
               calls |-> 0]
IdleRest(u) ==
    unit = u /\ IdleRef /\ IdleRegistry /\ IdlePool /\ IdleBridge /\ IdleMem

InitIndex ==
    /\ InitCommon
    /\ index \in IntRange
    /\ vec_size \in SeqLens
    /\ at_calls = << >>
    /\ IdleSlice
    /\ IdleScope
    /\ IdleRest("index")

\* A direct call of cgen_normalize_index(index, vec_size).
NormalizeIndex ==
    /\ pc = "ready"
    /\ \E o \in cgen_normalize_index(index, vec_size) :
          /\ ret' = o.ret
          /\ ReportError(o)
    /\ pc' = "normalize_index"
    /\ UNCHANGED << args_ok, ret_ptr, indexVars, sliceVars, scopeVars, restVars >>

\* cgen_vec_at_safe_impl(vec_ptr, index, size_func, at_func, type_name).
VecAtSafe ==
    /\ pc = "ready"
    /\ IF ~args_ok
       THEN /\ ReportError([error |-> CGEN_ERROR_VALUE,
                             msg |-> "Invalid vector parameters"])
            /\ ret_ptr' = NULL
            /\ UNCHANGED << ret, at_calls >>
       ELSE \E o \in cgen_normalize_index(index, vec_size) :
              /\ ret' = o.ret
              /\ ReportError(o)
              /\ IF o.ret < 0
                 THEN ret_ptr' = NULL /\ UNCHANGED at_calls
                 ELSE /\ at_calls' = Append(at_calls, ToSize(o.ret))
                      /\ ret_ptr' = at_func(ToSize(o.ret))
    /\ pc' = "vec_at_safe"
    /\ UNCHANGED << args_ok, index, vec_size, sliceVars, scopeVars, restVars >>

NextIndex == NormalizeIndex \/ VecAtSafe

SpecIndex == InitIndex /\ [][NextIndex]_vars

----------------------------------------------------------------------------
(* Slice normalizers, cgen_python_ops.c and cgen_stc_bridge.c *)

\* cgen_slice_new / cgen_slice_start_stop / cgen_slice_full: the slices a
\* caller can build.  A field that is not given keeps the constructors' filler.
MkSlices(A, B, C) ==
    { [start |-> IF hs THEN a ELSE 0, stop |-> IF hp THEN b ELSE 0,
       step |-> IF ht THEN c ELSE 1,
       has_start |-> hs, has_stop |-> hp, has_step |-> ht] :
         a \in A, b \in B, c \in C,
         hs \in BOOLEAN, hp \in BOOLEAN, ht \in BOOLEAN }
\* Bounds within and just beyond the lengths, and the extreme ints.
BoundArgs == (-(MaxLen + 1) .. (MaxLen + 1)) \cup {IntMin, IntMax}
StepArgs == (-MaxStep .. MaxStep) \cup {IntMax}
FewBounds == {-1, 0, MaxLen}
\* The calls tried, as << slice, seq_len >>: every slice over the lengths an
\* int holds; step INT_MIN (abs is undefined); and a length an int cannot hold.
PythonSliceCalls ==
    (MkSlices(BoundArgs, BoundArgs, StepArgs) \X (0 .. MaxLen))
      \cup (MkSlices(FewBounds, FewBounds, {IntMin}) \X {0, MaxLen})
      \cup (MkSlices(FewBounds, FewBounds, {-1, 1}) \X {IntMax + 1})

\* What the caller's result struct holds before the call.
PriorResult == [start |-> 1, stop |-> 2, step |-> 3, length |-> 4]

\* Lines 286-289 (start) and 293-296 (stop): the default when the bound is
\* omitted, one offset by the length when negative, then the two clamps.
\* len is (int)seq_len; the result is the set of values the int may hold.
SliceBound(has, val, dflt, step, len) ==
    LET v0s == IF has THEN {val} ELSE dflt
        v1s == UNION { IF v0 < 0 THEN IntSums(v0, len) ELSE {v0} : v0 \in v0s }
        lowClamp(v1) == IF v1 < 0 THEN (IF step > 0 THEN 0 ELSE -1) ELSE v1
    IN  UNION { IF lowClamp(v1) >= len
                THEN (IF step > 0 THEN {len} ELSE IntSums(len, -1))
                ELSE {lowClamp(v1)} : v1 \in v1s }

\* Lines 300-306: the visited count, in size_t arithmetic.  A zero divisor
\* (only abs(INT_MIN) can produce one) is undefined: any value.
SliceLength(step, rstart, rstop, rstep) ==
    LET span(hi, lo) == SizeSub(SizeAdd(SizeSub(hi, lo), rstep), 1)
        quot(n) == IF rstep = 0 THEN SizeRange ELSE {n \div rstep}
    IN  IF step > 0
        THEN (IF rstart < rstop THEN quot(span(rstop, rstart)) ELSE {0})
        ELSE (IF rstart > rstop THEN quot(span(rstart, rstop)) ELSE {0})

\* (a variant that stores the step before it rejects a zero step)
cgen_normalize_python_slice_latecheck(sl, len, res, ok) ==
    IF ~ok
    THEN {[ret |-> CGEN_ERROR_VALUE, result |-> res, error |-> CGEN_ERROR_VALUE,
           msg |-> "Invalid slice parameters"]}
    ELSE {[ret |-> CGEN_ERROR_VALUE, error |-> CGEN_ERROR_VALUE,
           msg |-> "Slice step cannot be zero",
           result |-> [res EXCEPT !.step = IF sl.has_step THEN ToSize(sl.step) ELSE 1]]}

\* cgen_normalize_python_slice(slice, seq_len, result): the set of outcomes
\* [ret, result, error]; res is *result before the call, ok is FALSE when
\* slice or result is NULL.
cgen_normalize_python_slice(sl, len, res, ok) ==
    IF ~ok \/ (sl.has_step /\ sl.step = 0)
    THEN {[ret |-> CGEN_ERROR_VALUE, result |-> res, error |-> CGEN_ERROR_VALUE,
           msg |-> IF ~ok THEN "Invalid slice parameters"
                   ELSE "Slice step cannot be zero"]}
    ELSE
      LET step == IF sl.has_step THEN sl.step ELSE 1
          ilen == ToInt(len)
          starts == SliceBound(sl.has_start, sl.start,
                               IF step > 0 THEN {0} ELSE IntSums(ilen, -1),
                               step, ilen)
          stops == SliceBound(sl.has_stop, sl.stop,
                              IF step > 0 THEN {ilen} ELSE {-1},
                              step, ilen)
      IN  UNION { { [ret |-> CGEN_OK, error |-> CGEN_OK,
                     result |-> [start |-> ToSize(a), stop |-> ToSize(b),
                                 step |-> ToSize(t), length |-> n]] :
                       n \in SliceLength(step, ToSize(a), ToSize(b), ToSize(t)) } :
                  a \in starts, b \in stops, t \in IntAbs(step) }

\* cgen_normalize_slice(slice, container_size): in place, on size_t fields.
cgen_normalize_slice(sl, size, ok) ==
    IF ~ok \/ sl.step = 0
    THEN [ret |-> CGEN_ERROR_VALUE, slice |-> sl, error |-> CGEN_ERROR_VALUE,
          msg |-> IF ~ok THEN "Slice is NULL" ELSE "Slice step cannot be zero"]
    ELSE [ret |-> CGEN_OK, error |-> CGEN_OK,
          slice |-> [start |-> IF sl.start >= size THEN size ELSE sl.start,
                     stop |-> IF sl.stop >= size THEN size ELSE sl.stop,
                     step |-> sl.step]]

\* The size_t values the in-place slice is tried with.
SizeSamples == {0, MaxLen - 1, MaxLen, MaxLen + 1, SizeMax}

InitSlice ==
    /\ InitCommon
    /\ IdleIndex
    /\ IdleScope
    /\ IdleRest("slice")
    /\ result = PriorResult
    /\ \/ /\ \E c \in PythonSliceCalls : slice = c[1] /\ seq_len = c[2]
          /\ args_ok
          /\ cslice = [start |-> 0, stop |-> 0, step |-> 0]
          /\ container_size = 0
       \/ /\ slice = [start |-> 0, stop |-> 0, step |-> 1, has_start |-> FALSE,
                      has_stop |-> FALSE, has_step |-> FALSE]
          /\ seq_len = 0
          /\ cslice \in [start : SizeSamples, stop : SizeSamples,
                         step : {0, 1, SizeMax}]
          /\ container_size \in {0, MaxLen, SizeMax}

\* A call of cgen_normalize_python_slice(&slice, seq_len, &result).
NormalizePythonSlice ==
    /\ pc = "ready"
    /\ \E o \in cgen_normalize_python_slice(slice, seq_len, result, args_ok) :
          /\ ret' = o.ret
          /\ result' = o.result
          /\ ReportError(o)
    /\ pc' = "python_slice"
    /\ UNCHANGED << args_ok, ret_ptr, indexVars, slice, seq_len, cslice,
                    container_size, scopeVars, restVars >>

\* A call of cgen_normalize_slice(&cslice, container_size).
NormalizeSlice ==
    /\ pc = "ready"
    /\ LET o == cgen_normalize_slice(cslice, container_size, args_ok)
       IN  /\ ret' = o.ret
           /\ cslice' = o.slice
           /\ ReportError(o)
    /\ pc' = "bridge_slice"
    /\ UNCHANGED << args_ok, ret_ptr, indexVars, slice, seq_len, result,
                    container_size, scopeVars, restVars >>

NextSlice == NormalizePythonSlice \/ NormalizeSlice

SpecSlice == InitSlice /\ [][NextSlice]_vars

----------------------------------------------------------------------------
(* Scope allocator, cgen_memory_ops.c *)

\* Heap addresses: data blocks, the alloc_entry_t nodes and the scope record.
Blk(n) == << "blk", n >>
EntryNode(k) == << "entry", k >>
ScopeRec == << "scope" >>
DataBlocks == { Blk(n) : n \in 1 .. MaxBlocks }
\* The sizes cgen_scope_alloc is asked for.
AllocSizes == {0, 1, MaxLen}

\* One call of free(), and who made it.
FreeCall(by, p) == [by |-> by, ptr |-> p]

\* cgen_malloc(size): outcomes [ptr, error].  malloc may fail, or return any
\* address that is not live.
cgen_malloc(size, hp) ==
    IF size = 0
    THEN {[ptr |-> NULL, error |-> CGEN_ERROR_VALUE,
           msg |-> "Attempted to allocate 0 bytes"]}
    ELSE {[ptr |-> NULL, error |-> CGEN_ERROR_MEMORY,
           msg |-> "Failed to allocate " \o ToString(size) \o " bytes"]}
           \cup { [ptr |-> b, error |-> CGEN_OK] : b \in DataBlocks \ hp }

\* (variants of the list insertion: at the tail; skipping a known pointer)
scope_push_tail(entries, e) == Append(entries, e)
scope_push_dedup(entries, e) ==
    IF \E i \in 1 .. Len(entries) : entries[i].ptr = e.ptr
    THEN entries ELSE << e >> \o entries

\* Lines 301-303: the new entry becomes the head of the list.
scope_push(entries, e) == << e >> \o entries

\* cgen_scope_register(scope, ptr): outcomes [ret, scope, heap, error].
\* sc.state = "none" stands for a NULL scope.
cgen_scope_register(sc, ptr, hp) ==
    IF sc.state = "none" \/ ptr = NULL
    THEN {[ret |-> CGEN_ERROR_VALUE, scope |-> sc, heap |-> hp,
           error |-> CGEN_ERROR_VALUE,
           msg |-> IF sc.state = "none" THEN "Scope allocator is NULL"
                   ELSE "Pointer is NULL"]}
    ELSE {[ret |-> CGEN_ERROR_MEMORY, scope |-> sc, heap |-> hp,
           error |-> CGEN_ERROR_MEMORY, msg |-> "Failed to allocate scope entry"]}
           \cup (IF sc.count < MaxOps
                 THEN {[ret |-> CGEN_OK, error |-> CGEN_OK,
                        heap |-> hp \cup {EntryNode(sc.count + 1)},
                        scope |-> [sc EXCEPT
                           !.entries = scope_push(@, [node |-> EntryNode(sc.count + 1),
                                                      ptr |-> ptr]),
                           !.count = @ + 1]]}
                 ELSE {})

\* (a variant that forgets the block when its registration fails)
cgen_scope_alloc_leak(sc, size, hp) ==
    IF sc.state = "none"
    THEN {[ptr |-> NULL, scope |-> sc, heap |-> hp,
           error |-> CGEN_ERROR_VALUE, msg |-> "Scope allocator is NULL",
           frees |-> << >>]}
    ELSE UNION { IF m.ptr = NULL
                 THEN {[ptr |-> NULL, scope |-> sc, heap |-> hp,
                        error |-> m.error, msg |-> m.msg, frees |-> << >>]}
                 ELSE { IF r.ret # CGEN_OK
                        THEN [ptr |-> NULL, scope |-> sc, heap |-> hp \cup {m.ptr},
                              error |-> r.error, msg |-> r.msg,
                              frees |-> << >>]
                        ELSE [ptr |-> m.ptr, scope |-> r.scope, heap |-> r.heap,
                              error |-> CGEN_OK, frees |-> << >>] :
                          r \in cgen_scope_register(sc, m.ptr, hp \cup {m.ptr}) } :
                 m \in cgen_malloc(size, hp) }

\* cgen_scope_alloc(scope, size): outcomes [ptr, scope, heap, error, frees];
\* frees are the calls of free() it makes (cgen_free on a failed registration).
cgen_scope_alloc(sc, size, hp) ==
    IF sc.state = "none"
    THEN {[ptr |-> NULL, scope |-> sc, heap |-> hp,
           error |-> CGEN_ERROR_VALUE, msg |-> "Scope allocator is NULL",
           frees |-> << >>]}
    ELSE UNION { IF m.ptr = NULL
                 THEN {[ptr |-> NULL, scope |-> sc, heap |-> hp,
                        error |-> m.error, msg |-> m.msg, frees |-> << >>]}
                 ELSE { IF r.ret # CGEN_OK
                        THEN [ptr |-> NULL, scope |-> sc, heap |-> hp,
                              error |-> r.error, msg |-> r.msg,
                              frees |-> << FreeCall("scope_alloc", m.ptr) >>]
                        ELSE [ptr |-> m.ptr, scope |-> r.scope, heap |-> r.heap,
                              error |-> CGEN_OK, frees |-> << >>] :
                          r \in cgen_scope_register(sc, m.ptr, hp \cup {m.ptr}) } :
                 m \in cgen_malloc(size, hp) }

RECURSIVE scope_free_loop(_, _, _)
\* Lines 312-320: the walk over the list from its head, then free(scope).
\* Outcomes [heap, frees, state].  free() of a block that is not live (a
\* pointer registered twice) is undefined: the walk goes on, or the process
\* is aborted inside that call.
scope_free_loop(current, hp, frees) ==
    IF current = << >>
    THEN {[heap |-> hp \ {ScopeRec}, state |-> "freed",
           frees |-> Append(frees, FreeCall("scope_free", ScopeRec))]}
    ELSE LET e == Head(current)
             frees1 == Append(frees, FreeCall("scope_free", e.ptr))
             frees2 == Append(frees1, FreeCall("scope_free", e.node))
             rest == scope_free_loop(Tail(current), (hp \ {e.ptr}) \ {e.node}, frees2)
         IN  IF e.ptr \in hp
             THEN rest
             ELSE rest \cup {[heap |-> hp, state |-> "aborted", frees |-> frees1]}

\* cgen_scope_free(scope): a no-op on a NULL scope.
cgen_scope_free(sc, hp) ==
    IF sc.state = "none"
    THEN {[heap |-> hp, state |-> "none", frees |-> << >>]}
    ELSE scope_free_loop(sc.entries, hp, << >>)

InitScope ==
    /\ err = CGEN_OK
    /\ err_msg = ""
    /\ IdleRest("scope")
    /\ pc = "ready"
    /\ args_ok = TRUE
    /\ ret = 0
    /\ ret_ptr = NULL
    /\ IdleIndex
    /\ IdleSlice
    /\ result = [start |-> 0, stop |-> 0, step |-> 0, length |-> 0]
    /\ IdleScope

ScopeUsable == scope.state \in {"none", "open"}

\* cgen_scope_new(): the record is malloc'ed, or NULL is returned.
ScopeNew ==
    /\ scope.state = "none"
    /\ \/ /\ scope' = [state |-> "open", entries |-> << >>, count |-> 0]
          /\ heap' = heap \cup {ScopeRec}
          /\ ret_ptr' = ScopeRec
          /\ UNCHANGED << err, err_msg >>
       \/ /\ ReportError([error |-> CGEN_ERROR_MEMORY,
                           msg |-> "Failed to allocate scope allocator"])
          /\ ret_ptr' = NULL
          /\ UNCHANGED << scope, heap >>
    /\ ret' = 0
    /\ pc' = "scope_new"
    /\ UNCHANGED << args_ok, indexVars, sliceVars, free_calls, registered,
                    restVars >>

\* The caller obtains a block of its own (to hand over with cgen_scope_register).
CallerMalloc ==
    /\ ScopeUsable
    /\ \E b \in DataBlocks \ heap :
          /\ heap' = heap \cup {b}
          /\ ret_ptr' = b
    /\ ret' = 0
    /\ pc' = "malloc"
    /\ UNCHANGED << err, err_msg, args_ok, indexVars, sliceVars, scope,
                    free_calls, registered, restVars >>

ScopeAlloc ==
    /\ ScopeUsable
    /\ \E size \in AllocSizes :
       \E o \in cgen_scope_alloc(scope, size, heap) :
          /\ Len(free_calls) + Len(o.frees) <= MaxFailedRegs
          /\ ret_ptr' = o.ptr
          /\ scope' = o.scope
          /\ heap' = o.heap
          /\ free_calls' = free_calls \o o.frees
          /\ ReportError(o)
          /\ registered' = IF o.ptr # NULL THEN Append(registered, o.ptr)
                           ELSE registered
    /\ ret' = 0
    /\ pc' = "scope_alloc"
    /\ UNCHANGED << args_ok, indexVars, sliceVars, restVars >>

\* cgen_scope_register with NULL or with a live block the caller holds
\* (its own, or one the scope already owns).
ScopeRegister ==
    /\ ScopeUsable
    /\ \E p \in {NULL} \cup (heap \cap DataBlocks) :
       \E o \in cgen_scope_register(scope, p, heap) :
          /\ ret' = o.ret
          /\ scope' = o.scope
          /\ heap' = o.heap
          /\ ReportError(o)
          /\ registered' = IF o.ret = CGEN_OK THEN Append(registered, p)
                           ELSE registered
    /\ ret_ptr' = NULL
    /\ pc' = "scope_register"
    /\ UNCHANGED << args_ok, indexVars, sliceVars, free_calls, restVars >>

ScopeFree ==
    /\ ScopeUsable
    /\ \E o \in cgen_scope_free(scope, heap) :
          /\ scope' = [scope EXCEPT !.state = o.state]
          /\ heap' = o.heap
          /\ free_calls' = free_calls \o o.frees
    /\ ret' = 0
    /\ ret_ptr' = NULL
    /\ pc' = "scope_free"
    /\ UNCHANGED << err, err_msg, args_ok, indexVars, sliceVars, registered,
                    restVars >>

NextScope == ScopeNew \/ CallerMalloc \/ ScopeAlloc \/ ScopeRegister \/ ScopeFree

SpecScope == InitScope /\ [][NextScope]_vars

----------------------------------------------------------------------------
(* Error context, cgen_error_handling.c *)

\* The codes and messages cgen_set_error is called with.  Fill(n) is a text
\* of n characters; the long ones do not fit the message buffer.
ErrorCodes == {CGEN_OK, CGEN_ERROR_GENERIC, CGEN_ERROR_MEMORY,
               CGEN_ERROR_INDEX, CGEN_ERROR_KEY, CGEN_ERROR_VALUE}
RECURSIVE Fill(_)
Fill(n) ==
    IF n = 0 THEN ""
    ELSE IF n % 2 = 0 THEN LET half == Fill(n \div 2) IN half \o half
         ELSE "a" \o Fill(n - 1)
Messages == {"", "Test error message", Fill(MessageSize - 1),
             Fill(MessageSize), Fill(MessageSize + 8)}

cgen_get_last_error == err
cgen_get_last_error_message == err_msg
cgen_has_error == IF err # CGEN_OK THEN 1 ELSE 0

InitError ==
    /\ InitCommon
    /\ args_ok = TRUE
    /\ IdleIndex /\ IdleSlice /\ IdleScope
    /\ unit = "error"
    /\ IdleRef /\ IdleRegistry /\ IdlePool /\ IdleBridge /\ IdleMem

errorFrame == << args_ok, indexVars, sliceVars, scopeVars, unit, memVars, refVars,
                 registryVars, poolVars, cap_calls >>

\* cgen_set_error(code, message, file, line, function); given = FALSE is a
\* NULL message.
SetError ==
    /\ unit = "error"
    /\ \E code \in ErrorCodes, given \in BOOLEAN, message \in Messages :
          /\ given \/ message = ""
          /\ err' = cgen_set_error(code)
          /\ err_msg' = StoredMessage(given, message)
          /\ call_args' = [entry |-> "set_error", code |-> code,
                           given |-> given, message |-> message]
    /\ pc' = "set_error"
    /\ UNCHANGED << ret, ret_ptr, errorFrame >>

ClearError ==
    /\ unit = "error"
    /\ err' = CGEN_OK
    /\ err_msg' = ""
    /\ call_args' = [entry |-> "clear_error"]
    /\ pc' = "clear_error"
    /\ UNCHANGED << ret, ret_ptr, errorFrame >>

GetLastError ==
    /\ unit = "error"
    /\ ret' = cgen_get_last_error
    /\ pc' = "get_last_error"
    /\ UNCHANGED << err, err_msg, call_args, ret_ptr, errorFrame >>

GetLastErrorMessage ==
    /\ unit = "error"
    /\ ret_ptr' = cgen_get_last_error_message
    /\ pc' = "get_last_error_message"
    /\ UNCHANGED << err, err_msg, call_args, ret, errorFrame >>

HasError ==
    /\ unit = "error"
    /\ ret' = cgen_has_error
    /\ pc' = "has_error"
    /\ UNCHANGED << err, err_msg, call_args, ret_ptr, errorFrame >>

NextError ==
    SetError \/ ClearError \/ GetLastError \/ GetLastErrorMessage \/ HasError

SpecError == InitError /\ [][NextError]_vars

----------------------------------------------------------------------------
(* Reference counting, cgen_memory_ops.c *)

\* The heap address of the envelope, and the payload sizes asked for.
Envelope == << "refcounted" >>
PayloadSizes == {0, MaxLen}

\* cgen_refcounted_new(data_size, destructor): malloc fails, or the envelope
\* starts with refcount 1.  destructor = FALSE is a NULL destructor.
cgen_refcounted_new(data_size, destructor) ==
    { [obj |-> [state |-> "none", refcount |-> 0, destructor |-> FALSE],
       ptr |-> NULL, error |-> CGEN_ERROR_MEMORY,
       msg |-> "Failed to allocate reference counted object"],
      [obj |-> [state |-> "alive", refcount |-> 1, destructor |-> destructor],
       ptr |-> Envelope, error |-> CGEN_OK] }

\* cgen_refcounted_retain(obj): obj->refcount++ on an int; NULL for NULL.
cgen_refcounted_retain(o) ==
    IF o.state = "none" THEN {[obj |-> o, ptr |-> NULL]}
    ELSE { [obj |-> [o EXCEPT !.refcount = n], ptr |-> Envelope] :
             n \in IntSums(o.refcount, 1) }

\* cgen_refcounted_release(obj): obj->refcount--, and at <= 0 the destructor
\* (if any) is called on the payload and the envelope is freed.
cgen_refcounted_release(o) ==
    IF o.state = "none" THEN {[obj |-> o, events |-> << >>]}
    ELSE { IF n <= 0
           THEN [obj |-> [o EXCEPT !.refcount = n, !.state = "freed"],
                 events |-> (IF o.destructor THEN << "destructor" >> ELSE << >>)
                              \o << "free" >>]
           ELSE [obj |-> [o EXCEPT !.refcount = n], events |-> << >>] :
             n \in IntSums(o.refcount, -1) }

\* cgen_refcounted_count(obj)
cgen_refcounted_count(o) == IF o.state = "none" THEN 0 ELSE o.refcount

\* The holders of the object: its creator, plus one per retain, minus one per
\* release.
Holders == 1 + obj_log.retains - obj_log.releases

InitRef ==
    /\ InitCommon
    /\ args_ok = TRUE
    /\ IdleIndex /\ IdleSlice /\ IdleScope
    /\ unit = "refcount"
    /\ IdleRef /\ IdleRegistry /\ IdlePool /\ IdleBridge /\ IdleMem

refFrame == << args_ok, indexVars, sliceVars, scope, registered, unit, memVars,
               registryVars, poolVars, bridgeVars >>

RefNew ==
    /\ unit = "refcount"
    /\ obj.state = "none"
    /\ \E size \in PayloadSizes, destructor \in BOOLEAN :
       \E o \in cgen_refcounted_new(size, destructor) :
          /\ obj' = o.obj
          /\ ret_ptr' = o.ptr
          /\ heap' = IF o.ptr = NULL THEN heap ELSE heap \cup {Envelope}
          /\ ReportError(o)
    /\ ret' = 0
    /\ pc' = "refcounted_new"
    /\ UNCHANGED << obj_log, free_calls, refFrame >>

\* A holder shares the object.  Retains are counted up to one more than an
\* int can hold.
RefRetain ==
    /\ unit = "refcount"
    /\ obj.state = "alive"
    /\ obj_log.retains <= IntMax
    /\ \E o \in cgen_refcounted_retain(obj) :
          /\ obj' = o.obj
          /\ ret_ptr' = o.ptr
    /\ obj_log' = [obj_log EXCEPT !.retains = @ + 1]
    /\ ret' = 0
    /\ pc' = "refcounted_retain"
    /\ UNCHANGED << err, err_msg, heap, free_calls, refFrame >>

\* A holder gives the object up: only while there is a holder left.
RefRelease ==
    /\ unit = "refcount"
    /\ obj.state = "alive"
    /\ Holders >= 1
    /\ \E o \in cgen_refcounted_release(obj) :
          /\ obj' = o.obj
          /\ obj_log' = [obj_log EXCEPT !.releases = @ + 1,
                                        !.events = @ \o o.events]
          /\ heap' = IF o.obj.state = "freed" THEN heap \ {Envelope} ELSE heap
          /\ free_calls' = IF o.obj.state = "freed"
                           THEN Append(free_calls,
                                       FreeCall("refcounted_release", Envelope))
                           ELSE free_calls
    /\ ret' = 0
    /\ ret_ptr' = NULL
    /\ pc' = "refcounted_release"
    /\ UNCHANGED << err, err_msg, refFrame >>

RefCount ==
    /\ unit = "refcount"
    /\ obj.state \in {"none", "alive"}
    /\ ret' = cgen_refcounted_count(obj)
    /\ ret_ptr' = NULL
    /\ pc' = "refcounted_count"
    /\ UNCHANGED << err, err_msg, heap, free_calls, refVars, refFrame >>

NextRef == RefNew \/ RefRetain \/ RefRelease \/ RefCount

SpecRef == InitRef /\ [][NextRef]_vars

----------------------------------------------------------------------------
(* Container registry, cgen_stc_bridge.c *)

\* Heap addresses of the registry record, its stc_entry_t nodes and the
\* strdup'ed type names; the containers handed over for cleanup.
RegistryRec == << "registry" >>
RegEntry(k) == << "stc_entry", k >>
NameCopy(k) == << "type_name", k >>
Containers == { << "container", n >> : n \in 1 .. MaxBlocks }

\* (a variant that links the new entry at the tail of the list)
registry_push_tail(entries, e) == Append(entries, e)

\* Lines 450-452: the new entry becomes the head of the list.
registry_push(entries, e) == << e >> \o entries

\* cgen_stc_register_container(registry, container, cleanup_func, type_name):
\* outcomes [ret, registry, heap, error].  has_cleanup = FALSE is a NULL
\* cleanup_func, has_name = FALSE a NULL type_name; k numbers the entry.
\* strdup may fail, which leaves the entry without a name.
cgen_stc_register_container(reg, container, has_cleanup, has_name, k, hp) ==
    IF reg.state = "none" \/ container = NULL \/ ~has_cleanup
    THEN {[ret |-> CGEN_ERROR_VALUE, registry |-> reg, heap |-> hp,
           error |-> CGEN_ERROR_VALUE, msg |-> "Invalid registry parameters"]}
    ELSE {[ret |-> CGEN_ERROR_MEMORY, registry |-> reg, heap |-> hp,
           error |-> CGEN_ERROR_MEMORY,
           msg |-> "Failed to allocate registry entry"]}
           \cup { [ret |-> CGEN_OK, error |-> CGEN_OK,
                   heap |-> hp \cup {RegEntry(k)}
                               \cup (IF named THEN {NameCopy(k)} ELSE {}),
                   registry |-> [reg EXCEPT
                      !.entries = registry_push(@, [id |-> k,
                                                    container |-> container,
                                                    named |-> named]),
                      !.count = SizeAdd(@, 1)]] :
                    named \in (IF has_name THEN BOOLEAN ELSE {FALSE}) }

\* Lines 461-472: the cleanup_func calls of one walk from the head.
CleanupWalk(entries) == [i \in 1 .. Len(entries) |-> entries[i].id]
\* The blocks the walk frees: every node and every name copy.
CleanupFrees(entries) ==
    UNION { {RegEntry(entries[i].id)}
              \cup (IF entries[i].named THEN {NameCopy(entries[i].id)} ELSE {}) :
            i \in 1 .. Len(entries) }

\* cgen_stc_cleanup_all(registry): [registry, heap, passes]; passes holds the
\* walk made, and is empty for a NULL registry (a no-op).
cgen_stc_cleanup_all(reg, hp) ==
    IF reg.state = "none"
    THEN [registry |-> reg, heap |-> hp, passes |-> << >>]
    ELSE [registry |-> [reg EXCEPT !.entries = << >>, !.count = 0],
          heap |-> hp \ CleanupFrees(reg.entries),
          passes |-> << CleanupWalk(reg.entries) >>]

\* cgen_stc_registry_free(registry): cleanup_all, then the record is freed.
cgen_stc_registry_free(reg, hp) ==
    IF reg.state = "none"
    THEN [registry |-> reg, heap |-> hp, passes |-> << >>]
    ELSE LET c == cgen_stc_cleanup_all(reg, hp)
         IN  [registry |-> [c.registry EXCEPT !.state = "freed"],
              heap |-> c.heap \ {RegistryRec}, passes |-> c.passes]

InitRegistry ==
    /\ InitCommon
    /\ args_ok = TRUE
    /\ IdleIndex /\ IdleSlice /\ IdleScope
    /\ unit = "registry"
    /\ IdleRef /\ IdleRegistry /\ IdlePool /\ IdleBridge /\ IdleMem

registryFrame == << args_ok, indexVars, sliceVars, scope, free_calls, unit, memVars,
                    refVars, poolVars, bridgeVars >>

RegistryUsable == registry.state \in {"none", "open"}

\* cgen_stc_registry_new(): the record is malloc'ed, or NULL is returned.
RegistryNew ==
    /\ unit = "registry"
    /\ registry.state = "none"
    /\ \/ /\ registry' = [state |-> "open", entries |-> << >>, count |-> 0]
          /\ heap' = heap \cup {RegistryRec}
          /\ ret_ptr' = RegistryRec
          /\ UNCHANGED << err, err_msg >>
       \/ /\ ReportError([error |-> CGEN_ERROR_MEMORY,
                           msg |-> "Failed to allocate STC registry"])
          /\ ret_ptr' = NULL
          /\ UNCHANGED << registry, heap >>
    /\ ret' = 0
    /\ pc' = "registry_new"
    /\ UNCHANGED << registered, cleanup_calls, registryFrame >>

RegisterContainer ==
    /\ unit = "registry"
    /\ RegistryUsable
    /\ Len(registered) < MaxOps
    /\ \E container \in {NULL} \cup Containers,
          has_cleanup \in BOOLEAN, has_name \in BOOLEAN :
       \E o \in cgen_stc_register_container(registry, container, has_cleanup,
                                            has_name, Len(registered) + 1, heap) :
          /\ ret' = o.ret
          /\ registry' = o.registry
          /\ heap' = o.heap
          /\ ReportError(o)
          /\ registered' = IF o.ret = CGEN_OK
                           THEN Append(registered, Len(registered) + 1)
                           ELSE registered
    /\ ret_ptr' = NULL
    /\ pc' = "register_container"
    /\ UNCHANGED << cleanup_calls, registryFrame >>

CleanupAll ==
    /\ unit = "registry"
    /\ RegistryUsable
    /\ Len(cleanup_calls) < MaxOps
    /\ LET o == cgen_stc_cleanup_all(registry, heap)
       IN  /\ registry' = o.registry
           /\ heap' = o.heap
           /\ cleanup_calls' = cleanup_calls \o o.passes
    /\ ret' = 0
    /\ ret_ptr' = NULL
    /\ pc' = "cleanup_all"
    /\ UNCHANGED << err, err_msg, registered, registryFrame >>

RegistryFree ==
    /\ unit = "registry"
    /\ RegistryUsable
    /\ LET o == cgen_stc_registry_free(registry, heap)
       IN  /\ registry' = o.registry
           /\ heap' = o.heap
           /\ cleanup_calls' = cleanup_calls \o o.passes
    /\ ret' = 0
    /\ ret_ptr' = NULL
    /\ pc' = "registry_free"
    /\ UNCHANGED << err, err_msg, registered, registryFrame >>

NextRegistry == RegistryNew \/ RegisterContainer \/ CleanupAll \/ RegistryFree

SpecRegistry == InitRegistry /\ [][NextRegistry]_vars

----------------------------------------------------------------------------
(* Memory pool, cgen_memory_ops.c *)

\* In the pool size_t is modelled with PoolBits bits, wide enough for the
\* default capacity.  sizeof(void*) and the default are the build's.
PoolMod == 2 ^ PoolBits
PointerSize == 8
DefaultCapacity == 4096
PoolAdd(a, b) == (a + b) % PoolMod

\* Line 213: (size + sizeof(void*) - 1) & ~(sizeof(void*) - 1), on size_t.
AlignedSize(size) ==
    LET bumped == PoolAdd(size, PointerSize - 1)
    IN  bumped - (bumped % PointerSize)

RECURSIVE GrowLoop(_, _)
\* Lines 218-220: new_capacity is doubled (modulo 2^PoolBits) until it
\* reaches need.  The result is the set of values the loop can end with:
\* once new_capacity has wrapped to 0 it stays 0 and the loop never ends.
GrowLoop(new_capacity, need) ==
    IF new_capacity >= need THEN {new_capacity}
    ELSE IF new_capacity = 0 THEN {}
         ELSE GrowLoop((new_capacity * 2) % PoolMod, need)

\* Heap addresses of the pool record and of its buffer; a pointer into the
\* buffer is the buffer plus an offset.
PoolRec == << "pool" >>
PoolData == << "pool_data" >>
PoolPtr(offset) == << "pool_data", offset >>

\* cgen_memory_pool_new(initial_size): outcomes [pool, ptr, heap, error].
cgen_memory_pool_new(initial_size, hp) ==
    LET capacity == IF initial_size = 0 THEN DefaultCapacity ELSE initial_size
        none == [state |-> "none", capacity |-> 0, used |-> 0, size |-> 0]
    IN  { [pool |-> none, ptr |-> NULL, heap |-> hp,
           error |-> CGEN_ERROR_MEMORY, msg |-> "Failed to allocate memory pool"],
          [pool |-> none, ptr |-> NULL, heap |-> hp,
           error |-> CGEN_ERROR_MEMORY,
           msg |-> "Failed to allocate memory pool data"],
          [pool |-> [state |-> "open", capacity |-> capacity, used |-> 0,
                     size |-> 0],
           ptr |-> PoolRec, heap |-> hp \cup {PoolRec, PoolData},
           error |-> CGEN_OK] }

\* (a variant that has stored the new capacity when realloc fails)
cgen_memory_pool_alloc_early_store(pl, size) ==
    IF pl.state = "none"
    THEN {[pool |-> pl, ptr |-> NULL, error |-> CGEN_ERROR_VALUE,
           msg |-> "Memory pool is NULL"]}
    ELSE
      LET asize == AlignedSize(size)
          need == PoolAdd(pl.used, asize)
          served(capacity) ==
              [pool |-> [pl EXCEPT !.capacity = capacity, !.used = need,
                                   !.size = PoolAdd(@, 1)],
               ptr |-> PoolPtr(pl.used), error |-> CGEN_OK]
      IN  IF need > pl.capacity
          THEN LET grown == GrowLoop((pl.capacity * 2) % PoolMod, need)
               IN  IF grown = {}
                   THEN {[pool |-> [pl EXCEPT !.state = "hung"], ptr |-> NULL,
                          error |-> CGEN_OK]}
                   ELSE { [pool |-> [pl EXCEPT !.capacity = new_capacity],
                           ptr |-> NULL, error |-> CGEN_ERROR_MEMORY,
                           msg |-> "Failed to grow memory pool"] :
                            new_capacity \in grown }
                          \cup { served(new_capacity) : new_capacity \in grown }
          ELSE {served(pl.capacity)}

\* cgen_memory_pool_alloc(pool, size): outcomes [pool, ptr, error].  A pool
\* in state "hung" is inside a call that never returns.
cgen_memory_pool_alloc(pl, size) ==
    IF pl.state = "none"
    THEN {[pool |-> pl, ptr |-> NULL, error |-> CGEN_ERROR_VALUE,
           msg |-> "Memory pool is NULL"]}
    ELSE
      LET asize == AlignedSize(size)
          need == PoolAdd(pl.used, asize)
          served(capacity) ==
              [pool |-> [pl EXCEPT !.capacity = capacity, !.used = need,
                                   !.size = PoolAdd(@, 1)],
               ptr |-> PoolPtr(pl.used), error |-> CGEN_OK]
      IN  IF need > pl.capacity
          THEN LET grown == GrowLoop((pl.capacity * 2) % PoolMod, need)
               IN  IF grown = {}
                   THEN {[pool |-> [pl EXCEPT !.state = "hung"], ptr |-> NULL,
                          error |-> CGEN_OK]}
                   ELSE {[pool |-> pl, ptr |-> NULL,
                          error |-> CGEN_ERROR_MEMORY,
                          msg |-> "Failed to grow memory pool"]}
                          \cup { served(new_capacity) : new_capacity \in grown }
          ELSE {served(pl.capacity)}

\* (a variant that forgets to rewind the pool)
cgen_memory_pool_reset_keep(pl) ==
    IF pl.state = "none" THEN pl ELSE [pl EXCEPT !.size = 0]

\* cgen_memory_pool_reset(pool)
cgen_memory_pool_reset(pl) ==
    IF pl.state = "none" THEN pl ELSE [pl EXCEPT !.used = 0, !.size = 0]

\* The sizes the pool is created with and asked for: small ones, one that is
\* not a power of two, the default, and the largest size_t values.
InitialSizes == {0, PointerSize, 3 * PointerSize, PoolMod \div 2}
PoolAllocSizes == {0, 1, 2 * PointerSize + 1, DefaultCapacity,
                   PoolMod - PointerSize, PoolMod - 1}

InitPool ==
    /\ InitCommon
    /\ args_ok = TRUE
    /\ IdleIndex /\ IdleSlice /\ IdleScope
    /\ unit = "pool"
    /\ IdleRef /\ IdleRegistry /\ IdlePool /\ IdleBridge /\ IdleMem

poolFrame == << args_ok, indexVars, sliceVars, scope, free_calls, registered,
                unit, memVars, refVars, registryVars, cap_calls >>

PoolNew ==
    /\ unit = "pool"
    /\ pool.state = "none"
    /\ pc = "ready"
    /\ \E initial_size \in InitialSizes :
       \E o \in cgen_memory_pool_new(initial_size, heap) :
          /\ pool' = o.pool
          /\ ret_ptr' = o.ptr
          /\ heap' = o.heap
          /\ ReportError(o)
          /\ pool_log' = [pool_log EXCEPT !.initial = o.pool.capacity]
          /\ call_args' = [entry |-> "pool_new", size |-> initial_size]
    /\ ret' = 0
    /\ pc' = "pool_new"
    /\ UNCHANGED poolFrame

PoolAlloc ==
    /\ unit = "pool"
    /\ pool.state \in {"none", "open"}
    /\ pc # "ready"
    /\ Len(pool_log.handed) < MaxAllocs
    /\ \E size \in PoolAllocSizes :
       \E o \in cgen_memory_pool_alloc(pool, size) :
          /\ pool' = o.pool
          /\ ret_ptr' = o.ptr
          /\ ReportError(o)
          /\ pool_log' =
               IF o.ptr = NULL THEN pool_log
               ELSE [pool_log EXCEPT
                       !.grown = @ \/ o.pool.capacity # pool.capacity,
                       !.handed = Append(@, [size |-> size,
                                             offset |-> pool.used])]
          /\ call_args' = [entry |-> "pool_alloc", size |-> size]
    /\ ret' = 0
    /\ pc' = "pool_alloc"
    /\ UNCHANGED << heap, poolFrame >>

PoolReset ==
    /\ unit = "pool"
    /\ pool.state \in {"none", "open"}
    /\ pc # "ready"
    /\ pool_log.resets < MaxResets
    /\ pool' = cgen_memory_pool_reset(pool)
    /\ pool_log' = [pool_log EXCEPT !.resets = @ + 1, !.handed = << >>,
                                    !.last_pass = pool_log.handed]
    /\ call_args' = [entry |-> "pool_reset"]
    /\ ret' = 0
    /\ ret_ptr' = NULL
    /\ pc' = "pool_reset"
    /\ UNCHANGED << err, err_msg, heap, poolFrame >>

\* cgen_memory_pool_free(pool): the buffer, then the record.
PoolFree ==
    /\ unit = "pool"
    /\ pool.state = "open"
    /\ pool' = [pool EXCEPT !.state = "freed"]
    /\ heap' = heap \ {PoolData, PoolRec}
    /\ call_args' = [entry |-> "pool_free"]
    /\ ret' = 0
    /\ ret_ptr' = NULL
    /\ pc' = "pool_free"
    /\ UNCHANGED << err, err_msg, pool_log, poolFrame >>

NextPool == PoolNew \/ PoolAlloc \/ PoolReset \/ PoolFree

SpecPool == InitPool /\ [][NextPool]_vars

----------------------------------------------------------------------------
(* Container bridge, cgen_stc_bridge.c *)

\* The containers behind the capability functions: vectors as sequences of
\* elements, maps as the set of keys they hold.
Keys == {"x", "y"}
Maps == SUBSET Keys
\* An element is what at_func returns for its position: a pointer to the
\* element's bytes, or NULL.
Elements == {<< "a" >>, << "b" >>}
Vectors == {<< >>, << << "a" >> >>, << << "b" >>, << "a" >> >>,
            << << "a" >>, NULL, << "b" >> >>}
\* The type names passed along (none at all when the argument is NULL).
TypeNames == {"hmap_str", "hmap_int"}

\* What the capability functions return.
contains_func(map, key) == key \in map
get_func(map, key) == << "value", key >>

\* The argument names of each entry point that it requires to be non-NULL.
Required(entry) ==
    CASE entry = "len_safe" -> {"container", "size_func"}
      [] entry = "map_get_safe" -> {"map_ptr", "key", "get_func", "contains_func"}
      [] entry = "in_vec" -> {"vec_ptr", "element", "size_func", "at_func"}
      [] entry = "in_map" -> {"map_ptr", "key", "contains_func"}
      [] entry = "vec_enumerate" -> {"vec_ptr", "callback", "size_func", "at_func"}
      [] entry = "map_items" -> {"map_ptr", "callback", "iter_func"}

\* A call is invalid when one of its required arguments is NULL; nulls is the
\* set of arguments passed as NULL.
Invalid(entry, nulls) == nulls \cap Required(entry) # {}

\* cgen_len_safe(container, size_func): outcomes [ret, error, calls].
cgen_len_safe(nulls, container) ==
    IF Invalid("len_safe", nulls)
    THEN [ret |-> 0, error |-> CGEN_ERROR_VALUE,
          msg |-> "Invalid container or size function", calls |-> << >>]
    ELSE [ret |-> Len(container), error |-> CGEN_OK,
          calls |-> << << "size_func" >> >>]

\* (a variant that looks the key up without asking contains_func)
cgen_map_get_safe_impl_unchecked(nulls, map, key, type_name) ==
    IF Invalid("map_get_safe", nulls)
    THEN [ptr |-> NULL, error |-> CGEN_ERROR_VALUE,
          msg |-> "Invalid map parameters", calls |-> << >>]
    ELSE [ptr |-> get_func(map, key), error |-> CGEN_OK,
          calls |-> << << "get_func", key >> >>]

\* cgen_map_get_safe_impl(map_ptr, key, get_func, contains_func, type_name)
cgen_map_get_safe_impl(nulls, map, key, type_name) ==
    IF Invalid("map_get_safe", nulls)
    THEN [ptr |-> NULL, error |-> CGEN_ERROR_VALUE,
          msg |-> "Invalid map parameters", calls |-> << >>]
    ELSE IF ~contains_func(map, key)
         THEN [ptr |-> NULL, error |-> CGEN_ERROR_KEY,
               msg |-> "Key not found in "
                         \o (IF "type_name" \in nulls THEN "map" ELSE type_name),
               calls |-> << << "contains_func", key >> >>]
         ELSE [ptr |-> get_func(map, key), error |-> CGEN_OK,
               calls |-> << << "contains_func", key >>, << "get_func", key >> >>]

RECURSIVE InVecLoop(_, _, _)
\* Lines 337-342: at_func(vec, i) for i = 0, 1, ... up to the first non-NULL
\* element whose bytes memcmp finds equal to the one looked for.
\* [found, calls]
InVecLoop(vec, element, i) ==
    IF i >= Len(vec) THEN [found |-> 0, calls |-> << >>]
    ELSE IF vec[i + 1] # NULL /\ vec[i + 1] = element
         THEN [found |-> 1, calls |-> << << "at_func", i >> >>]
         ELSE LET rest == InVecLoop(vec, element, i + 1)
              IN  [found |-> rest.found,
                   calls |-> << << "at_func", i >> >> \o rest.calls]

\* (a variant whose scan starts at the second position)
cgen_in_vec_impl_from_one(nulls, vec, element) ==
    IF Invalid("in_vec", nulls)
    THEN [ret |-> 0, error |-> CGEN_OK, calls |-> << >>]
    ELSE LET walk == InVecLoop(vec, element, 1)
         IN  [ret |-> walk.found, error |-> CGEN_OK,
              calls |-> << << "size_func" >> >> \o walk.calls]

\* cgen_in_vec_impl(vec_ptr, element, size_func, at_func, element_size)
cgen_in_vec_impl(nulls, vec, element) ==
    IF Invalid("in_vec", nulls)
    THEN [ret |-> 0, error |-> CGEN_OK, calls |-> << >>]
    ELSE LET walk == InVecLoop(vec, element, 0)
         IN  [ret |-> walk.found, error |-> CGEN_OK,
              calls |-> << << "size_func" >> >> \o walk.calls]

\* cgen_in_map_impl(map_ptr, key, contains_func)
cgen_in_map_impl(nulls, map, key) ==
    IF Invalid("in_map", nulls)
    THEN [ret |-> 0, error |-> CGEN_OK, calls |-> << >>]
    ELSE [ret |-> IF contains_func(map, key) THEN 1 ELSE 0, error |-> CGEN_OK,
          calls |-> << << "contains_func", key >> >>]

RECURSIVE EnumerateLoop_stopping(_, _)
\* (a variant that ends the walk at the first NULL element)
EnumerateLoop_stopping(vec, i) ==
    IF i >= Len(vec) THEN << >>
    ELSE IF vec[i + 1] = NULL THEN << << "at_func", i >> >>
         ELSE << << "at_func", i >>, << "callback", i, vec[i + 1] >> >>
                \o EnumerateLoop_stopping(vec, i + 1)

RECURSIVE EnumerateLoop(_, _)
\* Lines 367-372: at_func for every position, and then the callback when the
\* element is not NULL.
EnumerateLoop(vec, i) ==
    IF i >= Len(vec) THEN << >>
    ELSE << << "at_func", i >> >>
           \o (IF vec[i + 1] # NULL
               THEN << << "callback", i, vec[i + 1] >> >>
               ELSE << >>)
           \o EnumerateLoop(vec, i + 1)

\* cgen_vec_enumerate_impl(vec_ptr, callback, userdata, size_func, at_func)
cgen_vec_enumerate_impl(nulls, vec) ==
    IF Invalid("vec_enumerate", nulls)
    THEN [ret |-> 0, error |-> CGEN_ERROR_VALUE,
          msg |-> "Invalid enumeration parameters", calls |-> << >>]
    ELSE [ret |-> 0, error |-> CGEN_OK,
          calls |-> << << "size_func" >> >> \o EnumerateLoop(vec, 0)]

\* cgen_map_items_impl(map_ptr, callback, userdata, iter_func)
cgen_map_items_impl(nulls, map) ==
    IF Invalid("map_items", nulls)
    THEN [ret |-> 0, error |-> CGEN_ERROR_VALUE,
          msg |-> "Invalid map iteration parameters", calls |-> << >>]
    ELSE [ret |-> 0, error |-> CGEN_OK, calls |-> << << "iter_func" >> >>]

\* The calls tried: every argument valid, or exactly one of them NULL, or
\* all of the required ones.
NullChoices(entry, optional) ==
    {{}} \cup { {a} : a \in Required(entry) \cup optional } \cup {Required(entry)}

bridgeFrame == << args_ok, indexVars, sliceVars, scopeVars, unit, memVars, refVars,
                  registryVars, poolVars >>

LenSafe ==
    /\ unit = "bridge"
    /\ \E nulls \in NullChoices("len_safe", {}), container \in Vectors :
          LET o == cgen_len_safe(nulls, container)
          IN  /\ ret' = o.ret
              /\ cap_calls' = o.calls
              /\ ReportError(o)
              /\ call_args' = [entry |-> "len_safe", nulls |-> nulls,
                               container |-> container]
    /\ ret_ptr' = NULL
    /\ pc' = "len_safe"
    /\ UNCHANGED bridgeFrame

MapGetSafe ==
    /\ unit = "bridge"
    /\ \E nulls \in NullChoices("map_get_safe", {"type_name"}),
          map \in Maps, key \in Keys, type_name \in TypeNames :
          LET o == cgen_map_get_safe_impl(nulls, map, key, type_name)
          IN  /\ ret_ptr' = o.ptr
              /\ cap_calls' = o.calls
              /\ ReportError(o)
              /\ call_args' = [entry |-> "map_get_safe", nulls |-> nulls,
                               container |-> map, key |-> key,
                               type_name |-> type_name]
    /\ ret' = 0
    /\ pc' = "map_get_safe"
    /\ UNCHANGED bridgeFrame

InVec ==
    /\ unit = "bridge"
    /\ \E nulls \in NullChoices("in_vec", {}), vec \in Vectors,
          element \in Elements :
          LET o == cgen_in_vec_impl(nulls, vec, element)
          IN  /\ ret' = o.ret
              /\ cap_calls' = o.calls
              /\ ReportError(o)
              /\ call_args' = [entry |-> "in_vec", nulls |-> nulls,
                               container |-> vec, key |-> element]
    /\ ret_ptr' = NULL
    /\ pc' = "in_vec"
    /\ UNCHANGED bridgeFrame

InMap ==
    /\ unit = "bridge"
    /\ \E nulls \in NullChoices("in_map", {}), map \in Maps, key \in Keys :
          LET o == cgen_in_map_impl(nulls, map, key)
          IN  /\ ret' = o.ret
              /\ cap_calls' = o.calls
              /\ ReportError(o)
              /\ call_args' = [entry |-> "in_map", nulls |-> nulls,
                               container |-> map, key |-> key]
    /\ ret_ptr' = NULL
    /\ pc' = "in_map"
    /\ UNCHANGED bridgeFrame

VecEnumerate ==
    /\ unit = "bridge"
    /\ \E nulls \in NullChoices("vec_enumerate", {}), vec \in Vectors :
          LET o == cgen_vec_enumerate_impl(nulls, vec)
          IN  /\ cap_calls' = o.calls
              /\ ReportError(o)
              /\ call_args' = [entry |-> "vec_enumerate", nulls |-> nulls,
                               container |-> vec]
    /\ ret' = 0
    /\ ret_ptr' = NULL
    /\ pc' = "vec_enumerate"
    /\ UNCHANGED bridgeFrame

MapItems ==
    /\ unit = "bridge"
    /\ \E nulls \in NullChoices("map_items", {}), map \in Maps :
          LET o == cgen_map_items_impl(nulls, map)
          IN  /\ cap_calls' = o.calls
              /\ ReportError(o)
              /\ call_args' = [entry |-> "map_items", nulls |-> nulls,
                               container |-> map]
    /\ ret' = 0
    /\ ret_ptr' = NULL
    /\ pc' = "map_items"
    /\ UNCHANGED bridgeFrame

\* cgen_vec_at_safe_impl is the VecAtSafe call of the index normalizer, made
\* first; args_ok = FALSE passes it a NULL argument.
InitBridgeCalls ==
    /\ InitCommon
    /\ index \in {-1, MaxLen} /\ vec_size = MaxLen /\ at_calls = << >>
    /\ IdleSlice /\ IdleScope
    /\ unit = "bridge"
    /\ IdleRef /\ IdleRegistry /\ IdlePool /\ IdleBridge /\ IdleMem

NextBridge ==
    VecAtSafe \/ LenSafe \/ MapGetSafe \/ InVec \/ InMap \/ VecEnumerate
      \/ MapItems

SpecBridge == InitBridgeCalls /\ [][NextBridge]_vars

----------------------------------------------------------------------------
(* Platform errors, cgen_error_handling.c and cgen_file_ops.c *)

\* The errno values the switch names, as <errno.h> numbers them.
EPERM == 1
ENOENT == 2
EIO == 5
ENOMEM == 12
EACCES == 13
EINVAL == 22

\* The values errno may hold after a failed call; some are none of the above.
ErrnoValues == -1 .. MaxErrno

\* (a variant of the switch without the EPERM label)
cgen_errno_to_error_no_eperm(errno_val) ==
    CASE errno_val = ENOMEM -> CGEN_ERROR_MEMORY
      [] errno_val = ENOENT -> CGEN_ERROR_FILE_NOT_FOUND
      [] errno_val = EACCES -> CGEN_ERROR_PERMISSION
      [] errno_val = EIO -> CGEN_ERROR_IO
      [] errno_val = EINVAL -> CGEN_ERROR_VALUE
      [] OTHER -> CGEN_ERROR_RUNTIME

\* cgen_errno_to_error(errno_val)
cgen_errno_to_error(errno_val) ==
    CASE errno_val = ENOMEM -> CGEN_ERROR_MEMORY
      [] errno_val = ENOENT -> CGEN_ERROR_FILE_NOT_FOUND
      [] errno_val \in {EACCES, EPERM} -> CGEN_ERROR_PERMISSION
      [] errno_val = EIO -> CGEN_ERROR_IO
      [] errno_val = EINVAL -> CGEN_ERROR_VALUE
      [] OTHER -> CGEN_ERROR_RUNTIME

\* strerror(errno), the platform's text for the value.
strerror(errno_val) ==
    CASE errno_val = EPERM -> "Operation not permitted"
      [] errno_val = ENOENT -> "No such file or directory"
      [] errno_val = EIO -> "Input/output error"
      [] errno_val = ENOMEM -> "Cannot allocate memory"
      [] errno_val = EACCES -> "Permission denied"
      [] errno_val = EINVAL -> "Invalid argument"
      [] OTHER -> "Unknown error " \o ToString(errno_val)

Paths == {"f", "dir/g"}
FileSizes == {0, MaxLen}

\* cgen_getsize(path): stat_errno = 0 is a stat call that succeeded and found
\* st_size; otherwise stat failed and left stat_errno in errno.
cgen_getsize(path_given, path, stat_errno, st_size) ==
    IF ~path_given
    THEN [ret |-> -1, error |-> CGEN_ERROR_VALUE, msg |-> "Path is NULL"]
    ELSE IF stat_errno # 0
         THEN [ret |-> -1, error |-> cgen_errno_to_error(stat_errno),
               msg |-> "Failed to get file size for '" \o path \o "': "
                         \o strerror(stat_errno)]
         ELSE [ret |-> st_size, error |-> CGEN_OK]

InitErrno ==
    /\ InitCommon
    /\ IdleIndex /\ IdleSlice /\ IdleScope
    /\ unit = "errno"
    /\ IdleRef /\ IdleRegistry /\ IdlePool /\ IdleBridge /\ IdleMem

errnoFrame == << args_ok, indexVars, sliceVars, scopeVars, unit, memVars, refVars,
                 registryVars, poolVars, cap_calls >>

\* A call of cgen_errno_to_error(errno_val) on its own.
ErrnoToError ==
    /\ unit = "errno"
    /\ \E errno_val \in ErrnoValues :
          /\ ret' = cgen_errno_to_error(errno_val)
          /\ call_args' = [entry |-> "errno_to_error", errno_val |-> errno_val]
    /\ pc' = "errno_to_error"
    /\ UNCHANGED << err, err_msg, ret_ptr, errnoFrame >>

\* A call of cgen_getsize(path); args_ok = FALSE passes a NULL path.
GetSize ==
    /\ unit = "errno"
    /\ \E path \in Paths, stat_errno \in ErrnoValues \ {-1}, st_size \in FileSizes :
          LET o == cgen_getsize(args_ok, path, stat_errno, st_size)
          IN  /\ ret' = o.ret
              /\ ReportError(o)
              /\ call_args' = [entry |-> "getsize", errno_val |-> stat_errno]
    /\ pc' = "getsize"
    /\ UNCHANGED << ret_ptr, errnoFrame >>

NextErrno == ErrnoToError \/ GetSize

SpecErrno == InitErrno /\ [][NextErrno]_vars

----------------------------------------------------------------------------
(* Dynamic buffer, cgen_memory_ops.c *)

BufMod == 2 ^ BufBits
\* The largest object malloc and realloc hand out (PTRDIFF_MAX bytes).
BufObjectMax == BufMod \div 2 - 1
DefaultBufferCapacity == 256
BufRec == << "buffer" >>
BufData == << "buffer data" >>
NUL == "NUL"

RECURSIVE Bytes(_)
\* n bytes of data, none of them NUL.
Bytes(n) ==
    IF n = 0 THEN << >>
    ELSE IF n = 1 THEN << "x" >>
    ELSE LET half == Bytes(n \div 2)
         IN  half \o half \o Bytes(n % 2)

\* What the caller appends: short texts, bytes with a NUL among them, and
\* blocks that outgrow the buffer.
Texts == {<< >>, << "H", "i" >>, << "a", "b", "c" >>}
Blocks == {<< "a", NUL, "b" >>, Bytes(300), Bytes(500)}
InitialCapacities == {0, 1, 3, 10}

RECURSIVE BufGrowLoop(_, _)
\* Lines 426-428: while (new_capacity < need) new_capacity *= 2, in size_t.
\* The set holds the capacity the loop ends with; it is empty when the loop
\* never ends (the product has wrapped to 0).
BufGrowLoop(new_capacity, need) ==
    IF new_capacity >= need THEN {new_capacity}
    ELSE IF new_capacity = 0 THEN {}
    ELSE BufGrowLoop((new_capacity * 2) % BufMod, need)

\* cgen_buffer_new(initial_capacity): outcomes [buffer, ptr, heap, error].
cgen_buffer_new(initial_capacity, hp) ==
    LET capacity == IF initial_capacity = 0 THEN DefaultBufferCapacity
                    ELSE initial_capacity
        none == [state |-> "none", bytes |-> << >>, size |-> 0, capacity |-> 0]
    IN  {[buffer |-> none, ptr |-> NULL, heap |-> hp,
          error |-> CGEN_ERROR_MEMORY, msg |-> "Failed to allocate buffer"],
         [buffer |-> none, ptr |-> NULL, heap |-> hp,
          error |-> CGEN_ERROR_MEMORY, msg |-> "Failed to allocate buffer data"]}
        \cup (IF capacity <= BufObjectMax
              THEN {[buffer |-> [state |-> "open", bytes |-> << NUL >>,
                                 size |-> 0, capacity |-> capacity],
                     ptr |-> BufRec, heap |-> hp \cup {BufRec, BufData},
                     error |-> CGEN_OK]}
              ELSE {})

\* (a variant of the store that leaves the size as it was)
buffer_store_size_kept(buf, data, len) ==
    LET end == buf.size + len
    IN  [buf EXCEPT !.bytes = SubSeq(buf.bytes, 1, buf.size) \o SubSeq(data, 1, len)
                                \o << NUL >>
                                \o SubSeq(buf.bytes, end + 2, Len(buf.bytes))]

\* Lines 440-442: memcpy at data + size, the new size, the terminator.  The
\* bytes of data beyond the terminator keep what they held.
buffer_store(buf, data, len) ==
    LET end == buf.size + len
    IN  [buf EXCEPT !.bytes = SubSeq(buf.bytes, 1, buf.size) \o SubSeq(data, 1, len)
                                \o << NUL >>
                                \o SubSeq(buf.bytes, end + 2, Len(buf.bytes)),
                    !.size = end]

\* cgen_buffer_append(buffer, data, len): outcomes [ret, buffer, error].
\* buf.state = "none" stands for a NULL buffer, data_given = FALSE for NULL
\* data; 1 <= len <= Len(data) or len = 0.  A call whose loop never ends
\* leaves the buffer "hung".
cgen_buffer_append(buf, data_given, data, len) ==
    IF buf.state = "none" \/ ~data_given
    THEN {[ret |-> CGEN_ERROR_VALUE, buffer |-> buf, error |-> CGEN_ERROR_VALUE,
           msg |-> "Buffer or data is NULL"]}
    ELSE LET need == (buf.size + len + 1) % BufMod
             failed == [ret |-> CGEN_ERROR_MEMORY, buffer |-> buf,
                        error |-> CGEN_ERROR_MEMORY,
                        msg |-> "Failed to grow buffer"]
         IN  IF need > buf.capacity
             THEN IF BufGrowLoop(buf.capacity, need) = {}
                  THEN {[ret |-> CGEN_OK, error |-> CGEN_OK,
                         buffer |-> [buf EXCEPT !.state = "hung"]]}
                  ELSE {failed} \cup
                       { [ret |-> CGEN_OK, error |-> CGEN_OK,
                          buffer |-> buffer_store([buf EXCEPT !.capacity = c],
                                                  data, len)] :
                           c \in {n \in BufGrowLoop(buf.capacity, need) :
                                    n <= BufObjectMax} }
             ELSE {[ret |-> CGEN_OK, error |-> CGEN_OK,
                    buffer |-> buffer_store(buf, data, len)]}

\* cgen_buffer_append_str(buffer, str): strlen(str) bytes of str.
cgen_buffer_append_str(buf, str_given, str) ==
    IF ~str_given
    THEN {[ret |-> CGEN_ERROR_VALUE, buffer |-> buf, error |-> CGEN_ERROR_VALUE,
           msg |-> "String is NULL"]}
    ELSE cgen_buffer_append(buf, TRUE, str, Len(str))

\* cgen_buffer_clear(buffer)
cgen_buffer_clear(buf) ==
    IF buf.state = "none" THEN buf
    ELSE [buf EXCEPT !.size = 0, !.bytes = << NUL >> \o Tail(@)]

InitBuffer ==
    /\ InitCommon
    /\ IdleIndex /\ IdleSlice /\ IdleScope
    /\ unit = "buffer"
    /\ IdleRef /\ IdleRegistry /\ IdlePool /\ IdleBridge /\ IdleMem

bufferFrame == << args_ok, indexVars, sliceVars, scope, free_calls, registered,
                  unit, refVars, registryVars, poolVars, cap_calls, tracker,
                  held >>

BufferUsable == buffer.state \in {"none", "open"}
Calls == buf_log.calls

BufferNew ==
    /\ unit = "buffer"
    /\ buffer.state = "none"
    /\ pc = "ready"
    /\ \E initial_capacity \in InitialCapacities :
       \E o \in cgen_buffer_new(initial_capacity, heap) :
          /\ buffer' = o.buffer
          /\ ret_ptr' = o.ptr
          /\ heap' = o.heap
          /\ ReportError(o)
          /\ call_args' = [entry |-> "buffer_new", size |-> initial_capacity]
    /\ ret' = 0
    /\ pc' = "buffer_new"
    /\ UNCHANGED << buf_log, bufferFrame >>

\* What a call did to the buffer o.buffer goes into the log when it succeeded.
Logged(o, data, len) ==
    IF o.ret = CGEN_OK /\ o.buffer.state = "open"
    THEN [content |-> buf_log.content \o SubSeq(data, 1, len),
          lens |-> Append(buf_log.lens, len), calls |-> buf_log.calls + 1]
    ELSE [buf_log EXCEPT !.calls = @ + 1]

BufferAppend ==
    /\ unit = "buffer"
    /\ BufferUsable
    /\ pc # "ready"
    /\ Calls < MaxAppends
    /\ \E data \in Texts \cup Blocks, len_given \in BOOLEAN :
          LET len == IF len_given THEN Len(data) ELSE Len(data) \div 2
          IN  \E o \in cgen_buffer_append(buffer, args_ok, data, len) :
                /\ buffer' = o.buffer
                /\ ret' = o.ret
                /\ ReportError(o)
                /\ buf_log' = Logged(o, data, len)
                /\ call_args' = [entry |-> "buffer_append", size |-> len,
                                 capacity |-> buffer.capacity]
    /\ ret_ptr' = NULL
    /\ pc' = "buffer_append"
    /\ UNCHANGED << heap, bufferFrame >>

BufferAppendStr ==
    /\ unit = "buffer"
    /\ BufferUsable
    /\ pc # "ready"
    /\ Calls < MaxAppends
    /\ \E str \in Texts :
       \E o \in cgen_buffer_append_str(buffer, args_ok, str) :
          /\ buffer' = o.buffer
          /\ ret' = o.ret
          /\ ReportError(o)
          /\ buf_log' = Logged(o, str, Len(str))
          /\ call_args' = [entry |-> "buffer_append_str", size |-> Len(str),
                           capacity |-> buffer.capacity]
    /\ ret_ptr' = NULL
    /\ pc' = "buffer_append_str"
    /\ UNCHANGED << heap, bufferFrame >>

BufferClear ==
    /\ unit = "buffer"
    /\ BufferUsable
    /\ pc \notin {"ready", "buffer_clear"}
    /\ buffer' = cgen_buffer_clear(buffer)
    /\ buf_log' = [buf_log EXCEPT !.content = << >>, !.lens = << >>]
    /\ call_args' = [entry |-> "buffer_clear", capacity |-> buffer.capacity]
    /\ ret' = 0
    /\ ret_ptr' = NULL
    /\ pc' = "buffer_clear"
    /\ UNCHANGED << err, err_msg, heap, bufferFrame >>

\* cgen_buffer_free(buffer): the data, then the record.
BufferFree ==
    /\ unit = "buffer"
    /\ buffer.state = "open"
    /\ buffer' = [buffer EXCEPT !.state = "freed"]
    /\ heap' = heap \ {BufData, BufRec}
    /\ call_args' = [entry |-> "buffer_free"]
    /\ ret' = 0
    /\ ret_ptr' = NULL
    /\ pc' = "buffer_free"
    /\ UNCHANGED << err, err_msg, buf_log, bufferFrame >>

NextBuffer ==
    BufferNew \/ BufferAppend \/ BufferAppendStr \/ BufferClear \/ BufferFree

SpecBuffer == InitBuffer /\ [][NextBuffer]_vars

----------------------------------------------------------------------------
(* Safe allocation and memory tracking, cgen_memory_ops.c *)

\* The caller's pointer variables, and the sizes it asks for.
PtrVars == {"p", "q"}
MemSizes == {0, 1, SizeMax}
Counts == {0, 1, MaxLen}

\* Lines 44-51 and 99-106: the statistics after an allocation of size bytes.
stats_allocated(tr, size) ==
    IF ~tr.enabled THEN tr
    ELSE LET current == (tr.current_allocated + size) % SizeMod
         IN  [tr EXCEPT !.total_allocated = (@ + size) % SizeMod,
                        !.current_allocated = current,
                        !.allocation_count = (@ + 1) % SizeMod,
                        !.peak_allocated = IF current > @ THEN current ELSE @]

\* Lines 71-75: the statistics after cgen_realloc made a block; the peak is
\* not looked at, and nothing is counted when a block was passed in.
stats_reallocated(tr, was_null, new_size) ==
    IF ~(tr.enabled /\ was_null) THEN tr
    ELSE [tr EXCEPT !.total_allocated = (@ + new_size) % SizeMod,
                    !.current_allocated = (@ + new_size) % SizeMod,
                    !.allocation_count = (@ + 1) % SizeMod]

\* Lines 117-120: the statistics after a block was freed.
stats_freed(tr) ==
    IF ~tr.enabled THEN tr
    ELSE [tr EXCEPT !.free_count = (@ + 1) % SizeMod]

\* cgen_calloc(count, size): outcomes [ptr, error, total]; the product is
\* checked against SIZE_MAX before calloc is called.
cgen_calloc(count, size, hp) ==
    IF count = 0 \/ size = 0
    THEN {[ptr |-> NULL, error |-> CGEN_ERROR_VALUE, total |-> 0,
           msg |-> "Attempted to allocate 0 elements or 0 bytes"]}
    ELSE IF count > SizeMax \div size
         THEN {[ptr |-> NULL, error |-> CGEN_ERROR_VALUE, total |-> 0,
                msg |-> "Integer overflow in calloc"]}
         ELSE {[ptr |-> NULL, error |-> CGEN_ERROR_MEMORY, total |-> 0,
                msg |-> "Failed to allocate " \o ToString(count)
                          \o " elements of " \o ToString(size) \o " bytes"]}
                \cup { [ptr |-> b, error |-> CGEN_OK, total |-> count * size] :
                         b \in DataBlocks \ hp }

\* (a variant that leaves the caller's variable as it was)
cgen_free_keep(handle_given, value, hp, tr) ==
    IF ~handle_given \/ value = NULL
    THEN [value |-> value, heap |-> hp, tracker |-> tr, frees |-> << >>]
    ELSE [value |-> value, heap |-> hp \ {value}, tracker |-> stats_freed(tr),
          frees |-> << FreeCall("cgen_free", value) >>]

\* cgen_free(ptr): handle_given = FALSE is a NULL handle, value is *ptr.
\* [value, heap, tracker, frees]: what *ptr holds afterwards, and the calls
\* of free() made.
cgen_free(handle_given, value, hp, tr) ==
    IF ~handle_given \/ value = NULL
    THEN [value |-> value, heap |-> hp, tracker |-> tr, frees |-> << >>]
    ELSE [value |-> NULL, heap |-> hp \ {value}, tracker |-> stats_freed(tr),
          frees |-> << FreeCall("cgen_free", value) >>]

\* cgen_realloc(ptr, new_size): outcomes [ptr, heap, tracker, error, frees].
\* A block that realloc resizes keeps its name here.
cgen_realloc(ptr, new_size, hp, tr) ==
    IF new_size = 0
    THEN LET f == cgen_free(TRUE, ptr, hp, tr)
         IN  {[ptr |-> NULL, heap |-> f.heap, tracker |-> f.tracker,
               error |-> CGEN_OK, frees |-> f.frees]}
    ELSE {[ptr |-> NULL, heap |-> hp, tracker |-> tr, frees |-> << >>,
           error |-> CGEN_ERROR_MEMORY,
           msg |-> "Failed to reallocate to " \o ToString(new_size) \o " bytes"]}
           \cup { [ptr |-> b, heap |-> hp \cup {b}, frees |-> << >>,
                   tracker |-> stats_reallocated(tr, ptr = NULL, new_size),
                   error |-> CGEN_OK] :
                    b \in IF ptr = NULL THEN DataBlocks \ hp ELSE {ptr} }

\* cgen_check_memory_leaks()
cgen_check_memory_leaks(tr) == IF tr.current_allocated > 0 THEN 1 ELSE 0

InitMemory ==
    /\ InitCommon
    /\ IdleIndex /\ IdleSlice /\ IdleScope
    /\ unit = "memory"
    /\ IdleRef /\ IdleRegistry /\ IdlePool /\ IdleBridge /\ IdleMem

memoryFrame == << args_ok, indexVars, sliceVars, scope, registered, unit,
                  refVars, registryVars, poolVars, cap_calls, buffer, buf_log >>

\* The allocation and release calls made so far.
MemCalls == held.calls

\* cgen_memory_tracking_enable(): the statistics start from zero, whatever
\* is allocated at the time.
TrackingEnable ==
    /\ unit = "memory"
    /\ ~tracker.enabled
    /\ tracker' = [enabled |-> TRUE, total_allocated |-> 0, total_freed |-> 0,
                   current_allocated |-> 0, peak_allocated |-> 0,
                   allocation_count |-> 0, free_count |-> 0]
    /\ held' = [held EXCEPT !.tracked = {}]
    /\ call_args' = [entry |-> "tracking_enable"]
    /\ ret' = 0
    /\ ret_ptr' = NULL
    /\ pc' = "tracking_enable"
    /\ UNCHANGED << err, err_msg, heap, free_calls, memoryFrame >>

\* cgen_memory_tracking_disable()
TrackingDisable ==
    /\ unit = "memory"
    /\ tracker.enabled
    /\ tracker' = [tracker EXCEPT !.enabled = FALSE]
    /\ call_args' = [entry |-> "tracking_disable"]
    /\ ret' = 0
    /\ ret_ptr' = NULL
    /\ pc' = "tracking_disable"
    /\ UNCHANGED << err, err_msg, heap, free_calls, held, memoryFrame >>

\* What the caller holds after v = <the pointer returned>.
Assigned(v, ptr, counted) ==
    [vars |-> [held.vars EXCEPT ![v] = ptr],
     tracked |-> IF counted /\ ptr # NULL THEN held.tracked \cup {ptr}
                 ELSE held.tracked,
     calls |-> held.calls + 1]

\* v = cgen_malloc(size), into a variable that holds no block.
Malloc ==
    /\ unit = "memory"
    /\ MemCalls < MaxOps
    /\ \E v \in PtrVars, size \in MemSizes :
          /\ held.vars[v] = NULL
          /\ \E o \in cgen_malloc(size, heap) :
                /\ ret_ptr' = o.ptr
                /\ heap' = IF o.ptr = NULL THEN heap ELSE heap \cup {o.ptr}
                /\ tracker' = IF o.ptr = NULL THEN tracker
                              ELSE stats_allocated(tracker, size)
                /\ held' = Assigned(v, o.ptr, tracker.enabled)
                /\ ReportError(o)
                /\ call_args' = [entry |-> "malloc", v |-> v, size |-> size]
    /\ ret' = 0
    /\ pc' = "cgen_malloc"
    /\ UNCHANGED << free_calls, memoryFrame >>

\* v = cgen_calloc(count, size), into a variable that holds no block.
Calloc ==
    /\ unit = "memory"
    /\ MemCalls < MaxOps
    /\ \E v \in PtrVars, count \in Counts, size \in MemSizes :
          /\ held.vars[v] = NULL
          /\ \E o \in cgen_calloc(count, size, heap) :
                /\ ret_ptr' = o.ptr
                /\ heap' = IF o.ptr = NULL THEN heap ELSE heap \cup {o.ptr}
                /\ tracker' = IF o.ptr = NULL THEN tracker
                              ELSE stats_allocated(tracker, o.total)
                /\ held' = Assigned(v, o.ptr, tracker.enabled)
                /\ ReportError(o)
                /\ call_args' = [entry |-> "calloc", v |-> v, size |-> o.total]
    /\ ret' = 0
    /\ pc' = "cgen_calloc"
    /\ UNCHANGED << free_calls, memoryFrame >>

\* tmp = cgen_realloc(v, new_size); the caller stores the result in v when
\* the call made a block or released the one it was given.
Realloc ==
    /\ unit = "memory"
    /\ MemCalls < MaxOps
    /\ \E v \in PtrVars, new_size \in MemSizes :
       \E o \in cgen_realloc(held.vars[v], new_size, heap, tracker) :
          /\ ret_ptr' = o.ptr
          /\ heap' = o.heap
          /\ tracker' = o.tracker
          /\ free_calls' = free_calls \o o.frees
          /\ held' = IF o.error # CGEN_OK
                     THEN [held EXCEPT !.calls = @ + 1]
                     ELSE [vars |-> [held.vars EXCEPT ![v] = o.ptr],
                           tracked |-> IF o.ptr = NULL
                                       THEN held.tracked \ {held.vars[v]}
                                       ELSE IF tracker.enabled
                                                 /\ held.vars[v] = NULL
                                            THEN held.tracked \cup {o.ptr}
                                            ELSE held.tracked,
                           calls |-> held.calls + 1]
          /\ ReportError(o)
          /\ call_args' = [entry |-> "realloc", v |-> v, size |-> new_size,
                           was |-> held.vars[v]]
    /\ ret' = 0
    /\ pc' = "cgen_realloc"
    /\ UNCHANGED memoryFrame

\* cgen_free(&v), or cgen_free(NULL) when args_ok is FALSE.
Free ==
    /\ unit = "memory"
    /\ \E v \in PtrVars :
          LET o == cgen_free(args_ok, held.vars[v], heap, tracker)
          IN  /\ MemCalls < MaxOps
              /\ heap' = o.heap
              /\ tracker' = o.tracker
              /\ free_calls' = free_calls \o o.frees
              /\ held' = [vars |-> [held.vars EXCEPT ![v] = o.value],
                          tracked |-> IF o.frees = << >> THEN held.tracked
                                      ELSE held.tracked \ {held.vars[v]},
                          calls |-> held.calls + 1]
              /\ call_args' = [entry |-> "free", v |-> v, was |-> held.vars[v],
                               again |-> pc = "cgen_free" /\ call_args.v = v]
    /\ ret' = 0
    /\ ret_ptr' = NULL
    /\ pc' = "cgen_free"
    /\ UNCHANGED << err, err_msg, memoryFrame >>

\* cgen_check_memory_leaks()
CheckMemoryLeaks ==
    /\ unit = "memory"
    /\ ret' = cgen_check_memory_leaks(tracker)
    /\ call_args' = [entry |-> "check_memory_leaks"]
    /\ ret_ptr' = NULL
    /\ pc' = "check_memory_leaks"
    /\ UNCHANGED << err, err_msg, heap, free_calls, tracker, held, memoryFrame >>

NextMemory ==
    \/ TrackingEnable \/ TrackingDisable
    \/ Malloc \/ Calloc \/ Realloc \/ Free
    \/ CheckMemoryLeaks

SpecMemory == InitMemory /\ [][NextMemory]_vars

----------------------------------------------------------------------------
(* The runtime as a whole: one of its components, exercised from its start *)

InitRuntime ==
    \/ InitIndex
    \/ InitSlice
    \/ InitScope
    \/ InitError
    \/ InitRef
    \/ InitRegistry
    \/ InitPool
    \/ InitBridgeCalls

NextRuntime ==
    \/ unit = "index" /\ NextIndex
    \/ unit = "slice" /\ NextSlice
    \/ unit = "scope" /\ NextScope
    \/ unit = "error" /\ NextError
    \/ unit = "refcount" /\ NextRef
    \/ unit = "registry" /\ NextRegistry
    \/ unit = "pool" /\ NextPool
    \/ unit = "bridge" /\ NextBridge

SpecRuntime == InitRuntime /\ [][NextRuntime]_vars

----------------------------------------------------------------------------
(* Properties of the index normalizer *)

\* The index is one Python accepts for a sequence of vec_size elements.
IndexInRange == -vec_size <= index /\ index <= vec_size - 1
\* The non-negative position Python resolves it to.
ResolvedIndex == IF index >= 0 THEN index ELSE index + vec_size

\* C2: for every length L and every index i with -L <= i <= L-1,
\* cgen_normalize_index(i, L) returns i (i >= 0) or i + L (i < 0) and sets no
\* error, and cgen_vec_at_safe_impl returns exactly at_func(container, that
\* index), leaving the error context alone.
C2_InRangeIndexResolved ==
    [][ IndexInRange =>
          /\ (pc' = "normalize_index" =>
                 ret' = ResolvedIndex /\ err' = err)
          /\ (pc' = "vec_at_safe" /\ args_ok =>
                 /\ ret_ptr' = at_func(ResolvedIndex)
                 /\ at_calls' = << ResolvedIndex >>
                 /\ err' = err) ]_vars

\* C3: for every length L and every index i with i < -L or i >= L,
\* cgen_normalize_index returns -1 with the error context set to
\* CGEN_ERROR_INDEX, and cgen_vec_at_safe_impl returns NULL and never calls
\* at_func.
C3_OutOfRangeIndexFails ==
    ~IndexInRange =>
        /\ (pc = "normalize_index" => ret = -1 /\ err = CGEN_ERROR_INDEX)
        /\ (pc = "vec_at_safe" /\ args_ok =>
               ret_ptr = NULL /\ at_calls = << >> /\ err = CGEN_ERROR_INDEX)

\* safe_at(5) on a container of 5 elements has failed with an IndexError.
C3_Witness ==
    /\ pc = "vec_at_safe" /\ args_ok
    /\ vec_size = 5 /\ index = 5
    /\ ret_ptr = NULL /\ at_calls = << >> /\ err = CGEN_ERROR_INDEX

----------------------------------------------------------------------------
(* Properties of the slice normalizers *)

\* Python's reading of the slice over a sequence of seq_len elements
\* (unbounded integers): the step, the resolved start and stop, and the
\* indices an explicit loop visits.
PyStep == IF slice.has_step THEN slice.step ELSE 1
PyClamp(v, lo, hi) == IF v < lo THEN lo ELSE IF v > hi THEN hi ELSE v
PyOffset(v) == IF v < 0 THEN v + seq_len ELSE v
PyLow == IF PyStep > 0 THEN 0 ELSE -1
PyHigh == IF PyStep > 0 THEN seq_len ELSE seq_len - 1
PyStart == IF slice.has_start THEN PyClamp(PyOffset(slice.start), PyLow, PyHigh)
           ELSE IF PyStep > 0 THEN 0 ELSE seq_len - 1
PyStop == IF slice.has_stop THEN PyClamp(PyOffset(slice.stop), PyLow, PyHigh)
          ELSE IF PyStep > 0 THEN seq_len ELSE -1

RECURSIVE LoopCount(_, _, _)
\* for (i = from; step > 0 ? i < to : i > to; i += step) count++
LoopCount(from, to, step) ==
    IF (step > 0 /\ from < to) \/ (step < 0 /\ from > to)
    THEN 1 + LoopCount(from + step, to, step)
    ELSE 0

SliceNormalized == pc = "python_slice" /\ ret = CGEN_OK

\* C1: for every length and every (start, stop, step) with step # 0, the
\* length field equals the number of indices an explicit Python-style loop
\* from the resolved start towards the resolved stop visits ([::-1] over L
\* elements visits L of them).
C1_LengthIsLoopCount ==
    SliceNormalized => result.length = LoopCount(PyStart, PyStop, PyStep)

\* C4: after a successful call the stored (unsigned) start and stop lie in
\* [0, L] and the stored step is not 0.
C4_ResultWithinBounds ==
    SliceNormalized =>
        /\ result.start \in 0 .. seq_len
        /\ result.stop \in 0 .. seq_len
        /\ result.step # 0

\* C5: an omitted start resolves to 0 (step > 0) or L-1 (step < 0), an omitted
\* stop to L (step > 0) or -1 (step < 0), an omitted step to 1.
C5_OmittedDefaults ==
    SliceNormalized =>
        /\ (~slice.has_start =>
               result.start = ToSize(IF PyStep > 0 THEN 0 ELSE seq_len - 1))
        /\ (~slice.has_stop =>
               result.stop = ToSize(IF PyStep > 0 THEN seq_len ELSE -1))
        /\ (~slice.has_step => result.step = 1)

\* C6: for step > 0 a negative start or stop is offset by L once and then
\* clamped into [0, L]; a start far below -L with stop 3 and step 1 over
\* length 5 gives start 0, stop 3, length 3.
C6_PositiveStepClamp ==
    SliceNormalized /\ PyStep > 0 =>
        /\ (slice.has_start =>
               result.start = PyClamp(PyOffset(slice.start), 0, seq_len))
        /\ (slice.has_stop =>
               result.stop = PyClamp(PyOffset(slice.stop), 0, seq_len))
        /\ (/\ seq_len = 5 /\ slice.has_start /\ slice.start < -5
            /\ slice.has_stop /\ slice.stop = 3 /\ PyStep = 1
            => result = [start |-> 0, stop |-> 3, step |-> 1, length |-> 3])

\* C7: with an explicit step of 0 both normalizers return CGEN_ERROR_VALUE,
\* set the error context to CGEN_ERROR_VALUE and leave their output (the
\* result struct, the in-place slice) as it was.
C7_ZeroStepRejected ==
    [][ /\ (pc' = "python_slice" /\ slice.has_step /\ slice.step = 0 =>
               /\ ret' = CGEN_ERROR_VALUE
               /\ err' = CGEN_ERROR_VALUE
               /\ result' = result)
        /\ (pc' = "bridge_slice" /\ cslice.step = 0 =>
               /\ ret' = CGEN_ERROR_VALUE
               /\ err' = CGEN_ERROR_VALUE
               /\ cslice' = cslice) ]_vars

\* slice(1, 4, 0) over a non-empty sequence has been rejected.
C7_Witness ==
    /\ pc = "python_slice" /\ args_ok
    /\ slice.has_step /\ slice.step = 0 /\ slice.has_start /\ slice.start = 1
    /\ seq_len = MaxLen
    /\ ret = CGEN_ERROR_VALUE /\ err = CGEN_ERROR_VALUE /\ result = PriorResult

----------------------------------------------------------------------------
(* Properties of the scope allocator *)

Reverse(seq) == [i \in 1 .. Len(seq) |-> seq[Len(seq) + 1 - i]]
Count(seq, x) == Cardinality({i \in 1 .. Len(seq) : seq[i] = x})
NoDuplicates(seq) == \A i, j \in 1 .. Len(seq) : seq[i] = seq[j] => i = j
IsScopeFree(c) == c.by = "scope_free"
IsDataFree(c) == c.ptr \in DataBlocks
\* The pointers in a sequence of free() calls.
Ptrs(calls) == [i \in 1 .. Len(calls) |-> calls[i].ptr]

\* cgen_scope_free was called on the scope and is over: it returned, or the
\* process was aborted inside it.
ScopeClosed == scope.state \in {"freed", "aborted"}
\* The calls of free() cgen_scope_free made, and the registered pointers
\* among them.
CloseFrees == SelectSeq(free_calls, IsScopeFree)
CloseDataFrees == Ptrs(SelectSeq(CloseFrees, IsDataFree))

\* Every registration freed once, last registered first, the record last.
FreedInReverse ==
    /\ CloseDataFrees = Reverse(registered)
    /\ Count(Ptrs(CloseFrees), ScopeRec) = 1
    /\ CloseFrees[Len(CloseFrees)].ptr = ScopeRec
    /\ (registered = << >> => Ptrs(CloseFrees) = << ScopeRec >>)

C9_NoDeduplication ==
    /\ (scope.state = "open" =>
           [i \in 1 .. Len(scope.entries) |-> scope.entries[i].ptr]
             = Reverse(registered))
    /\ (scope.state = "freed" =>
           \A p \in DataBlocks :
              Count(CloseDataFrees, p) = Count(registered, p))
    /\ (scope.state = "aborted" =>
           /\ Len(CloseDataFrees) >= 2
           /\ CloseDataFrees
                = SubSeq(Reverse(registered), 1, Len(CloseDataFrees))
           /\ Count(CloseDataFrees, CloseDataFrees[Len(CloseDataFrees)]) >= 2)

\* A pointer registered twice has been handed to free() twice.
C9_Witness ==
    /\ scope.state = "freed"
    /\ \E p \in DataBlocks :
          Count(registered, p) = 2 /\ Count(CloseDataFrees, p) = 2

\* A cgen_scope_alloc call that fails: it returns NULL, the error context is
\* Value- or Memory-kind, the scope and the set of live blocks are as before.
FailedAllocIsClean ==
    pc' = "scope_alloc" /\ ret_ptr' = NULL =>
        /\ err' \in {CGEN_ERROR_VALUE, CGEN_ERROR_MEMORY}
        /\ scope' = scope
        /\ heap' = heap
        /\ registered' = registered

----------------------------------------------------------------------------
(* Properties of the error context *)

\* The last cgen_set_error call has not been followed by cgen_clear_error.
LastWasSet == call_args.entry = "set_error"
\* What the readers return, once they have been called.
ReadersAgree ==
    /\ (pc = "get_last_error" => ret = err)
    /\ (pc = "get_last_error_message" => ret_ptr = err_msg)
    /\ (pc = "has_error" => (ret # 0 <=> err # CGEN_OK))
ClearedIsOk ==
    call_args.entry = "clear_error" =>
        /\ err = CGEN_OK /\ err_msg = ""
        /\ (pc = "has_error" => ret = 0)

\* C16 (as stated): after cgen_set_error(code, msg) cgen_get_last_error()
\* returns code and cgen_get_last_error_message() returns msg, whatever was
\* stored before; cgen_has_error() is true exactly when the code is not
\* CGEN_OK; after cgen_clear_error() the code is CGEN_OK, the message is
\* empty and cgen_has_error() is false.
C16_MessageReturnedWhole ==
    /\ (LastWasSet /\ call_args.given =>
           err = call_args.code /\ err_msg = call_args.message)
    /\ ReadersAgree
    /\ ClearedIsOk

\* C16 (amended): the same, with the message read back being msg cut to the
\* MessageSize - 1 characters the buffer holds (msg itself when it is
\* shorter, the empty text for a NULL msg).
C16_MessageReturnedCut ==
    /\ (LastWasSet =>
           /\ err = call_args.code
           /\ Len(err_msg) <= MessageSize - 1
           /\ err_msg = (IF ~call_args.given THEN ""
                         ELSE SubSeq(call_args.message, 1, Len(err_msg)))
           /\ (call_args.given /\ Len(call_args.message) <= MessageSize - 1
                  => err_msg = call_args.message)
           /\ (call_args.given /\ Len(call_args.message) >= MessageSize
                  => Len(err_msg) = MessageSize - 1))
    /\ ReadersAgree
    /\ ClearedIsOk

\* A message longer than the buffer has been set over an earlier error and
\* read back, cut.
C16_Witness ==
    /\ pc = "get_last_error_message"
    /\ LastWasSet /\ call_args.given
    /\ call_args.code = CGEN_ERROR_VALUE
    /\ Len(call_args.message) = MessageSize + 8
    /\ ret_ptr = Fill(MessageSize - 1)

----------------------------------------------------------------------------
(* Properties of reference counting *)

\* The destructor (when one was given) has run once, then the envelope was
\* freed.
DestroyedOnce ==
    obj_log.events = (IF obj.destructor THEN << "destructor" >> ELSE << >>)
                       \o << "free" >>

\* C11: for an object made by cgen_refcounted_new and any retains / releases
\* in which releases never outnumber holders: while alive the count is
\* 1 + #retains - #releases, retain returns the same object, and the object
\* is destroyed (destructor once, then the envelope freed) at exactly the
\* release that takes the count from 1 to 0, never earlier.
C11_CountTracksHolders ==
    /\ (obj.state = "alive" =>
           /\ cgen_refcounted_count(obj) = Holders
           /\ Holders >= 1
           /\ obj_log.events = << >>
           /\ Envelope \in heap)
    /\ (obj.state = "freed" => Holders = 0 /\ DestroyedOnce)
    /\ (pc = "refcounted_retain" => ret_ptr = Envelope)

----------------------------------------------------------------------------
(* Properties of the container registry *)

RECURSIVE CleanedInOrder(_)
\* The entries cleaned so far, each pass read backwards, passes in order.
CleanedInOrder(passes) ==
    IF passes = << >> THEN << >>
    ELSE Reverse(Head(passes)) \o CleanedInOrder(Tail(passes))

\* C12: over any sequence of cgen_stc_register_container, cgen_stc_cleanup_all
\* and a final cgen_stc_registry_free, every registered entry's cleanup
\* callback is invoked exactly once; each pass calls back in reverse
\* registration order; after cleanup_all the registry is empty (no head,
\* count 0), so a later pass calls nothing a second time.
C12_CleanupOncePerEntry ==
    LET cleaned == CleanedInOrder(cleanup_calls)
        pending == SubSeq(registered, Len(cleaned) + 1, Len(registered))
    IN  /\ Len(cleaned) <= Len(registered)
        /\ cleaned = SubSeq(registered, 1, Len(cleaned))
        /\ (registry.state = "open" =>
               /\ CleanupWalk(registry.entries) = Reverse(pending)
               /\ registry.count = Len(registry.entries))
        /\ (registry.state = "freed" => cleaned = registered)
        /\ (pc \in {"cleanup_all", "registry_free"} /\ registry.state # "none" =>
               registry.entries = << >> /\ registry.count = 0)

\* Two entries were cleaned by cleanup_all, newest first, and the
\* registry_free that followed called nothing.
C12_Witness ==
    /\ registry.state = "freed"
    /\ registered = << 1, 2 >>
    /\ cleanup_calls = << << 2, 1 >>, << >> >>

----------------------------------------------------------------------------
(* Properties of the memory pool *)

\* The allocations of pass a and pass b agree: as far as the same sizes were
\* served in the same order, the same offsets were returned.
PassesAgree(a, b) ==
    \A i \in 1 .. Len(a) :
        (i <= Len(b) /\ \A j \in 1 .. i : a[j].size = b[j].size)
            => a[i].offset = b[i].offset

\* C13: the allocations served after cgen_memory_pool_reset get the same
\* offsets from the buffer start as the same sizes served before the reset,
\* a fresh pool included (the first allocation of every pass is at offset 0):
\* alloc(n), reset, alloc(n) returns the same offset twice.
C13_SameOffsetsAfterReset ==
    /\ PassesAgree(pool_log.handed, pool_log.last_pass)
    /\ (pool_log.handed # << >> => pool_log.handed[1].offset = 0)
    /\ (pool_log.last_pass # << >> => pool_log.last_pass[1].offset = 0)
    /\ (pc = "pool_alloc" /\ ret_ptr # NULL =>
           ret_ptr = PoolPtr(pool_log.handed[Len(pool_log.handed)].offset))

\* alloc(1), alloc(17), reset, alloc(1), alloc(17): offsets 0 and 8 both times.
C13_Witness ==
    /\ pool_log.resets = 1
    /\ pool_log.last_pass = << [size |-> 1, offset |-> 0],
                               [size |-> 2 * PointerSize + 1,
                                offset |-> PointerSize] >>
    /\ pool_log.handed = pool_log.last_pass
    /\ pc = "pool_alloc"

\* size rounded up to a multiple of the pointer size, as a number of bytes.
RoundUp(size) == ((size + PointerSize - 1) \div PointerSize) * PointerSize

RECURSIVE HandedBytes(_)
\* The pointer-aligned bytes handed out by the allocations of one pass.
HandedBytes(h) ==
    IF h = << >> THEN 0 ELSE RoundUp(Head(h).size) + HandedBytes(Tail(h))

\* C14: in every reachable state of a pool (any sequence of new, alloc,
\* reset) used <= capacity, and while the pool has not grown the
\* pointer-aligned bytes handed out since creation or the last reset do not
\* exceed the initial capacity.
C14_HandedOutWithinCapacity ==
    pool.state \in {"open", "hung"} =>
        /\ pool.used <= pool.capacity
        /\ (~pool_log.grown =>
               HandedBytes(pool_log.handed) <= pool_log.initial)

RECURSIVE SmallestDoubling(_, _)
\* capacity * 2^k for the smallest k >= 1 that reaches need.
SmallestDoubling(capacity, need) ==
    IF capacity * 2 >= need THEN capacity * 2
    ELSE SmallestDoubling(capacity * 2, need)

\* The step is a cgen_memory_pool_alloc call that could not grow the buffer:
\* NULL, CGEN_ERROR_MEMORY, the pool as it was.
GrowthFailed ==
    ret_ptr' = NULL /\ err' = CGEN_ERROR_MEMORY /\ pool' = pool

\* C15: when an allocation request does not fit (used + aligned size >
\* capacity) the new capacity is the old one times the smallest power of two
\* 2^k, k >= 1, that makes it fit (unless the buffer cannot be grown and the
\* call fails with CGEN_ERROR_MEMORY); the capacity never decreases,
\* cgen_memory_pool_reset leaves it unchanged, and cgen_memory_pool_new(0)
\* makes a pool of the default capacity 4096.
C15_CapacityDoublesToFit ==
    [][ /\ (/\ pool.state = "open" /\ pc' = "pool_alloc"
            /\ pool.used + RoundUp(call_args'.size) > pool.capacity
            /\ ~GrowthFailed
            => /\ pool'.state = "open"
               /\ pool'.capacity =
                    SmallestDoubling(pool.capacity,
                                     pool.used + RoundUp(call_args'.size)))
        /\ (pool.state = "open" => pool'.capacity >= pool.capacity)
        /\ (pc' = "pool_reset" => pool'.capacity = pool.capacity)
        /\ (pc' = "pool_new" /\ pool'.state = "open" /\ call_args'.size = 0
            => pool'.capacity = DefaultCapacity /\ DefaultCapacity > 0)
      ]_vars

----------------------------------------------------------------------------
(* Properties of the container bridge *)

\* The text t occurs in the text s.
Contains(s, t) ==
    \E i \in 0 .. (Len(s) - Len(t)) : SubSeq(s, i + 1, i + Len(t)) = t

\* The last call was cgen_map_get_safe_impl with every required argument.
MapGetCalled ==
    pc = "map_get_safe" /\ ~Invalid("map_get_safe", call_args.nulls)
KeyAbsent == ~contains_func(call_args.container, call_args.key)

\* C18: cgen_map_get_safe_impl asks contains_func before get_func: for an
\* absent key the error context holds CGEN_ERROR_KEY, the result is NULL and
\* get_func is never called; for a present key the result is exactly
\* get_func(map, key), reached after the contains_func call, and the error
\* context is left as it was.
C18_ContainsBeforeGet ==
    [][ pc' = "map_get_safe" /\ ~Invalid("map_get_safe", call_args'.nulls)
        => LET map == call_args'.container
               key == call_args'.key
           IN  IF ~contains_func(map, key)
               THEN /\ err' = CGEN_ERROR_KEY
                    /\ ret_ptr' = NULL
                    /\ cap_calls' = << << "contains_func", key >> >>
               ELSE /\ ret_ptr' = get_func(map, key)
                    /\ cap_calls' = << << "contains_func", key >>,
                                       << "get_func", key >> >>
                    /\ err' = err /\ err_msg' = err_msg
      ]_vars

\* A lookup of the absent key "x" that failed with CGEN_ERROR_KEY after the
\* contains_func call alone.
C18_Witness ==
    /\ MapGetCalled /\ KeyAbsent
    /\ call_args.key = "x" /\ call_args.container = {"y"}
    /\ err = CGEN_ERROR_KEY /\ ret_ptr = NULL
    /\ cap_calls = << << "contains_func", "x" >> >>

\* C19: after cgen_map_get_safe_impl is called with a key the map lacks,
\* the message stored in the error context contains the text of that key.
C19_MessageNamesKey ==
    MapGetCalled /\ KeyAbsent => Contains(err_msg, call_args.key)

\* The entry points of the bridge, by the position they leave.
BridgeEntries ==
    {"len_safe", "vec_at_safe", "map_get_safe", "in_vec", "in_map",
     "vec_enumerate", "map_items"}

\* The last bridge call was given a NULL where it requires an argument.
InvalidCall ==
    /\ pc \in BridgeEntries
    /\ IF pc = "vec_at_safe" THEN ~args_ok
       ELSE Invalid(call_args.entry, call_args.nulls)

\* C20: every bridge entry point given an invalid argument returns its
\* sentinel (NULL, 0, or nothing with no callback run), leaves a non-OK code
\* in the error context, and calls no capability function.
C20_InvalidArgumentReported ==
    InvalidCall =>
        /\ err # CGEN_OK
        /\ ret_ptr = NULL
        /\ pc \in {"len_safe", "in_vec", "in_map"} => ret = 0
        /\ IF pc = "vec_at_safe" THEN at_calls = << >> ELSE cap_calls = << >>

----------------------------------------------------------------------------
(* Properties of the runtime as a whole *)

\* The calls that report through their result, by the position they leave.
ReturnsIndex == {"normalize_index"}
ReturnsCode == {"python_slice", "bridge_slice", "scope_register",
                "register_container"}
ReturnsPointer == {"vec_at_safe", "map_get_safe", "scope_new", "scope_alloc",
                   "malloc", "refcounted_new", "registry_new", "pool_new",
                   "pool_alloc"}
ChecksArguments == {"len_safe", "in_vec", "in_map", "vec_enumerate",
                    "map_items"}
NeverFails == {"refcounted_retain", "refcounted_release", "refcounted_count",
               "scope_free", "cleanup_all", "registry_free", "pool_reset",
               "pool_free"}
CoreCalls ==
    ReturnsIndex \cup ReturnsCode \cup ReturnsPointer \cup ChecksArguments
      \cup NeverFails

\* The step is a call of a core operation that succeeded, as its caller sees
\* it: an index, CGEN_OK, a non-NULL pointer, or valid arguments to a call
\* that returns nothing to tell by.
Succeeded ==
    \/ pc' \in ReturnsIndex /\ ret' >= 0
    \/ pc' \in ReturnsCode /\ ret' = CGEN_OK
    \/ pc' \in ReturnsPointer /\ ret_ptr' # NULL
    \/ pc' \in ChecksArguments /\ ~Invalid(call_args'.entry, call_args'.nulls)
    \/ pc' \in NeverFails

\* C17: a successful call of a core operation leaves the error context, code
\* and message, exactly as it was; the context changes only in
\* cgen_set_error, cgen_clear_error, or a core call that failed.
C17_SuccessKeepsErrorContext ==
    [][ /\ Succeeded => err' = err /\ err_msg' = err_msg
        /\ (err' # err \/ err_msg' # err_msg)
           => \/ pc' \in {"set_error", "clear_error"}
              \/ pc' \in CoreCalls /\ ~Succeeded
      ]_vars

\* A core call that succeeded while an earlier error was on record.
C17_Witness ==
    /\ pc \in {"vec_at_safe", "map_get_safe", "python_slice", "pool_alloc",
               "scope_alloc", "refcounted_new", "register_container"}
    /\ IF pc \in ReturnsCode THEN ret = CGEN_OK ELSE ret_ptr # NULL
    /\ err # CGEN_OK
    /\ err_msg # ""

----------------------------------------------------------------------------
(* Properties of enumeration and membership *)

\* The calls of one kind among those recorded, in the order made.
CallsOf(kind) == SelectSeq(cap_calls, LAMBDA c : c[1] = kind)

\* The last call was cgen_vec_enumerate_impl with every required argument.
EnumerateCalled ==
    pc = "vec_enumerate" /\ ~Invalid("vec_enumerate", call_args.nulls)

\* C21 as stated: on a container of size n the callback runs exactly n
\* times, the i-th run receiving (i, at_func(container, i)), i = 0 .. n-1 in
\* increasing order, all within the call.
C21_CallbackForEveryIndex ==
    EnumerateCalled =>
        LET vec == call_args.container
        IN  CallsOf("callback")
              = [i \in 1 .. Len(vec) |-> << "callback", i - 1, vec[i] >>]

\* The positions of vec, in increasing order, whose element is not NULL.
RECURSIVE PresentFrom(_, _)
PresentFrom(vec, i) ==
    IF i >= Len(vec) THEN << >>
    ELSE (IF vec[i + 1] # NULL THEN << i >> ELSE << >>) \o PresentFrom(vec, i + 1)

\* C21: on a container of size n the callback runs, within the call, exactly
\* once for each index i in 0 .. n-1 at which at_func(container, i) is not
\* NULL, in strictly increasing order of i, receiving
\* (i, at_func(container, i)); at_func is asked once for each of 0 .. n-1.
C21_CallbackForEveryElement ==
    EnumerateCalled =>
        LET vec == call_args.container
            present == PresentFrom(vec, 0)
        IN  /\ CallsOf("callback")
                 = [k \in 1 .. Len(present) |->
                      << "callback", present[k], vec[present[k] + 1] >>]
            /\ CallsOf("at_func")
                 = [i \in 1 .. Len(vec) |-> << "at_func", i - 1 >>]
            /\ \A k \in 1 .. Len(cap_calls) :
                  cap_calls[k][1] = "callback"
                  => k > 1 /\ cap_calls[k - 1] = << "at_func", cap_calls[k][2] >>

\* An enumeration over three positions, the middle one NULL: two callbacks,
\* for positions 0 and 2.
C21_Witness ==
    /\ EnumerateCalled
    /\ Len(call_args.container) = 3
    /\ call_args.container[2] = NULL
    /\ CallsOf("callback")
         = << << "callback", 0, call_args.container[1] >>,
              << "callback", 2, call_args.container[3] >> >>

\* The last call was cgen_in_vec_impl with every required argument.
InVecCalled == pc = "in_vec" /\ ~Invalid("in_vec", call_args.nulls)

\* The first position of vec holding an element equal to the target, or
\* Len(vec) when there is none.
RECURSIVE FirstMatch(_, _, _)
FirstMatch(vec, target, i) ==
    IF i >= Len(vec) THEN Len(vec)
    ELSE IF vec[i + 1] = target THEN i ELSE FirstMatch(vec, target, i + 1)

\* C22: cgen_in_vec_impl returns true exactly when some index in [0, size)
\* holds an element equal to the target; it reads the indices in increasing
\* order from 0 up to the first match, never an index >= size, and returns
\* false for an empty container.
C22_MembershipByScan ==
    InVecCalled =>
        LET vec == call_args.container
            target == call_args.key
            hit == FirstMatch(vec, target, 0)
            last == IF hit < Len(vec) THEN hit + 1 ELSE Len(vec)
        IN  /\ ret = 1 <=> \E i \in 1 .. Len(vec) : vec[i] = target
            /\ ret \in {0, 1}
            /\ CallsOf("at_func") = [i \in 1 .. last |-> << "at_func", i - 1 >>]
            /\ \A k \in 1 .. Len(cap_calls) :
                  cap_calls[k][1] = "at_func" => cap_calls[k][2] < Len(vec)
            /\ Len(vec) = 0 => ret = 0

\* A scan that found the target at the first position and read nothing else.
C22_Witness ==
    /\ InVecCalled
    /\ Len(call_args.container) = 2
    /\ call_args.container[1] = call_args.key
    /\ ret = 1
    /\ cap_calls = << << "size_func" >>, << "at_func", 0 >> >>

----------------------------------------------------------------------------
(* Properties of the platform error mapping *)

\* The code the last call derived from errno: the result of
\* cgen_errno_to_error, or what a failed stat left in the error context.
MappedCode == IF pc = "errno_to_error" THEN ret ELSE err
ErrnoMapped ==
    \/ pc = "errno_to_error"
    \/ pc = "getsize" /\ args_ok /\ call_args.errno_val # 0

\* C23: cgen_errno_to_error maps ENOMEM to CGEN_ERROR_MEMORY, ENOENT to
\* CGEN_ERROR_FILE_NOT_FOUND, EACCES and EPERM to CGEN_ERROR_PERMISSION, EIO
\* to CGEN_ERROR_IO, EINVAL to CGEN_ERROR_VALUE and every other value to
\* CGEN_ERROR_RUNTIME, never to CGEN_OK.
C23_ErrnoTable ==
    ErrnoMapped =>
        LET e == call_args.errno_val
        IN  /\ e = ENOMEM => MappedCode = CGEN_ERROR_MEMORY
            /\ e = ENOENT => MappedCode = CGEN_ERROR_FILE_NOT_FOUND
            /\ e = EACCES => MappedCode = CGEN_ERROR_PERMISSION
            /\ e = EPERM => MappedCode = CGEN_ERROR_PERMISSION
            /\ e = EIO => MappedCode = CGEN_ERROR_IO
            /\ e = EINVAL => MappedCode = CGEN_ERROR_VALUE
            /\ e \notin {ENOMEM, ENOENT, EACCES, EPERM, EIO, EINVAL}
               => MappedCode = CGEN_ERROR_RUNTIME
            /\ MappedCode # CGEN_OK

\* EPERM mapped to the permission code, reached by the second label of the
\* case.
C23_Witness ==
    /\ pc = "errno_to_error"
    /\ call_args.errno_val = EPERM
    /\ ret = CGEN_ERROR_PERMISSION

----------------------------------------------------------------------------
(* Properties of the dynamic buffer *)

RECURSIVE SumOf(_)
SumOf(lens) == IF lens = << >> THEN 0 ELSE Head(lens) + SumOf(Tail(lens))

\* C24: after any sequence of successful cgen_buffer_append /
\* cgen_buffer_append_str calls, growth included, the content of the buffer
\* is the concatenation of the appended data in call order, size is the sum
\* of the appended lengths, size + 1 <= capacity and data[size] is the NUL
\* terminator; cgen_buffer_clear sets size to 0 and leaves the capacity.
C24_BufferHoldsAppended ==
    /\ buffer.state = "open"
       => /\ SubSeq(buffer.bytes, 1, buffer.size) = buf_log.content
          /\ buffer.size = SumOf(buf_log.lens)
          /\ buffer.size + 1 <= buffer.capacity
          /\ Len(buffer.bytes) <= buffer.capacity
          /\ buffer.bytes[buffer.size + 1] = NUL
    /\ pc = "buffer_clear" /\ buffer.state = "open"
       => buffer.size = 0 /\ buffer.capacity = call_args.capacity

\* Two appends on a buffer made with room for three bytes, the second of
\* which made it grow.
C24_Witness ==
    /\ buffer.state = "open"
    /\ pc = "buffer_append_str"
    /\ buf_log.lens = << 2, 3 >>
    /\ buffer.bytes = << "H", "i", "a", "b", "c", NUL >>
    /\ call_args.capacity = 3
    /\ buffer.capacity = 6

----------------------------------------------------------------------------
(* Properties of safe allocation and memory tracking *)

\* C25: cgen_free(&p) releases the block p names and sets p to NULL; it does
\* nothing when p is already NULL or the handle itself is NULL, so a second
\* cgen_free through the same variable frees nothing more.
C25_FreeOnceThenNull ==
    [][ pc' = "cgen_free"
        => LET v == call_args'.v
               was == held.vars[v]
           IN  /\ IF args_ok /\ was # NULL
                  THEN /\ held'.vars = [held.vars EXCEPT ![v] = NULL]
                       /\ heap' = heap \ {was}
                       /\ free_calls' = Append(free_calls,
                                               FreeCall("cgen_free", was))
                  ELSE /\ held'.vars = held.vars
                       /\ heap' = heap
                       /\ free_calls' = free_calls
                       /\ tracker' = tracker
               /\ call_args'.again => free_calls' = free_calls
      ]_vars

\* A block was allocated into a variable and cgen_free was called twice
\* through it: free() ran once.
C25_Witness ==
    /\ pc = "cgen_free" /\ args_ok
    /\ call_args.again /\ call_args.was = NULL
    /\ held.calls = 3
    /\ Len(free_calls) = 1
    /\ heap = {}

\* C29: with tracking enabled, cgen_check_memory_leaks() returns 0 once every
\* block allocated has been freed, and returns non-zero only while some
\* tracked block is still unfreed.
C29_NoLeakWhenAllFreed ==
    pc = "check_memory_leaks" /\ tracker.enabled
    => /\ held.tracked = {} => ret = 0
       /\ ret # 0 => held.tracked # {}

\* C30: with tracking enabled, after any sequence of cgen_malloc,
\* cgen_calloc, cgen_realloc and cgen_free calls, peak_allocated >=
\* current_allocated and total_allocated >= current_allocated.
C30_PeakAndTotalBoundCurrent ==
    tracker.enabled
    => /\ tracker.peak_allocated >= tracker.current_allocated
       /\ tracker.total_allocated >= tracker.current_allocated

----------------------------------------------------------------------------
(* Properties of the memory pool as a bump allocator *)

\* C26: between resets the k-th allocation is at the offset that is the sum
\* of the sizes of the earlier ones, each rounded up to a multiple of
\* sizeof(void*); every offset and the used counter are multiples of
\* sizeof(void*); the byte ranges [offset, offset + size) of distinct
\* allocations do not overlap.
C26_BumpAllocation ==
    pool.state = "open" =>
        LET h == pool_log.handed
        IN  /\ \A k \in 1 .. Len(h) :
                  /\ h[k].offset = HandedBytes(SubSeq(h, 1, k - 1))
                  /\ h[k].offset % PointerSize = 0
            /\ pool.used % PointerSize = 0
            /\ \A i, j \in 1 .. Len(h) :
                  i < j /\ h[i].size > 0 /\ h[j].size > 0
                  => h[i].offset + h[i].size <= h[j].offset

\* The last call was a cgen_memory_pool_alloc that returned NULL on a pool:
\* the buffer could not be grown.
GrowthRefused == pc = "pool_alloc" /\ pool.state = "open" /\ ret_ptr = NULL

\* C27: when realloc fails inside cgen_memory_pool_alloc the call returns
\* NULL, the error context holds CGEN_ERROR_MEMORY, and capacity, used,
\* allocation count and the buffer are as before the call: what was handed
\* out stays handed out, and a later allocation that fits is served.
C27_FailedGrowthLeavesPool ==
    [][ /\ (pc' = "pool_alloc" /\ pool.state = "open" /\ pool'.state = "open"
            /\ ret_ptr' = NULL)
           => /\ err' = CGEN_ERROR_MEMORY
              /\ err_msg' = "Failed to grow memory pool"
              /\ pool' = pool
              /\ pool_log' = pool_log
              /\ heap' = heap
        /\ (GrowthRefused /\ pc' = "pool_alloc" /\ call_args'.size <= PointerSize
            /\ pool.used + RoundUp(call_args'.size) <= pool.capacity)
           => /\ ret_ptr' = PoolPtr(pool.used)
              /\ pool'.capacity = pool.capacity
      ]_vars

\* One allocation stands, the next could not grow the buffer: the pool still
\* has the first.
C27_Witness ==
    /\ GrowthRefused
    /\ err = CGEN_ERROR_MEMORY
    /\ Len(pool_log.handed) = 1
    /\ pool.size = 1
    /\ pool.used = RoundUp(pool_log.handed[1].size)
    /\ pool.used > 0
    /\ pool.capacity = pool_log.initial

\* C28: with size_t arithmetic wrapping modulo 2^w, cgen_memory_pool_alloc
\* returns for every pool state and every size: the round-up and the
\* doubling loop never run forever, and a block handed out has at least the
\* requested number of bytes within the buffer.
C28_AllocTerminates ==
    /\ pool.state # "hung"
    /\ (pc = "pool_alloc" /\ pool.state = "open" /\ ret_ptr # NULL)
       => LET last == pool_log.handed[Len(pool_log.handed)]
          IN  last.offset + call_args.size <= pool.capacity

====
